---------------------------- MODULE Spec2Model ----------------------------
(***************************************************************************)
(* ShopSense: the rule-based query intent classifier and entity extractor  *)
(* (src/src/lib/intentClassifier.ts), modelled as a state machine whose    *)
(* steps are the stages of one classifyIntent call.                        *)
(*                                                                         *)
(* A JavaScript string is a TLA+ string; Len, SubSeq, Head, Tail and \o    *)
(* act on it character by character.  An optional value (T | undefined) is *)
(* a sequence of length at most one: <<>> is undefined, <<v>> is v.        *)
(***************************************************************************)
EXTENDS Integers, Sequences, FiniteSets, TLC

None == <<>>
Some(v) == <<v>>
IsSome(o) == o # <<>>
Get(o) == o[1]

(***************************************************************************)
(* Characters and the string primitives of the JavaScript runtime.         *)
(***************************************************************************)
UpperLetters == "ABCDEFGHIJKLMNOPQRSTUVWXYZ"
LowerLetters == "abcdefghijklmnopqrstuvwxyz"
DigitChars == "0123456789"

CharAt(s, i) == SubSeq(s, i, i)

CharsOf(s) == { CharAt(s, i) : i \in 1..Len(s) }

UpperSet == CharsOf(UpperLetters)
LowerSet == CharsOf(LowerLetters)
DigitSet == CharsOf(DigitChars)
\* \s of a JavaScript regex, and what String.prototype.trim strips
SpaceSet == {" ", "\t", "\n", "\r", "\f"}
\* \w of a JavaScript regex
WordSet == UpperSet \cup LowerSet \cup DigitSet \cup {"_"}

ToLowerMap ==
  [c \in UpperSet |->
     CharAt(LowerLetters, CHOOSE k \in 1..26 : CharAt(UpperLetters, k) = c)]

LowerChar(c) == IF c \in UpperSet THEN ToLowerMap[c] ELSE c

RECURSIVE ToLowerCase(_)
\* String.prototype.toLowerCase
ToLowerCase(s) ==
  IF s = "" THEN "" ELSE LowerChar(Head(s)) \o ToLowerCase(Tail(s))

RECURSIVE TrimStart(_)
TrimStart(s) ==
  IF s # "" /\ Head(s) \in SpaceSet THEN TrimStart(Tail(s)) ELSE s

RECURSIVE TrimEnd(_)
TrimEnd(s) ==
  IF s # "" /\ CharAt(s, Len(s)) \in SpaceSet
    THEN TrimEnd(SubSeq(s, 1, Len(s) - 1))
    ELSE s

\* String.prototype.trim
Trim(s) == TrimEnd(TrimStart(s))

\* String.prototype.includes
Includes(s, kw) ==
  \E i \in 1..(Len(s) - Len(kw) + 1) : SubSeq(s, i, i + Len(kw) - 1) = kw

\* a function [k \in 1..n |-> e] as an explicit tuple, each e evaluated once
Tuple(f) == f \o <<>>

RECURSIVE FlattenFrom(_, _)
FlattenFrom(ss, k) ==
  IF k > Len(ss) THEN <<>> ELSE ss[k] \o FlattenFrom(ss, k + 1)

\* the concatenation of a sequence of sequences
Flatten(ss) == FlattenFrom(Tuple(ss), 1)

Min(a, b) == IF a <= b THEN a ELSE b

(***************************************************************************)
(* Regular expressions.  A pattern is a syntax tree; Match gives, for a    *)
(* start position, every way the tree can match from there, in the order   *)
(* in which a backtracking matcher tries them (greedy quantifiers first,   *)
(* alternatives left to right), so its head is the match JavaScript        *)
(* reports.  RegExp(re, ci): ci is the /i flag; the literals of a /i       *)
(* pattern are written in lower case and the subject is case-folded.       *)
(***************************************************************************)
Unbounded == -1

Lit(s) == [t |-> "lit", s |-> s]
Cls(c) == [t |-> "cls", c |-> c]
Cat(rs) == [t |-> "cat", rs |-> rs]
Alt(rs) == [t |-> "alt", rs |-> rs]
Rep(r, lo, hi) == [t |-> "rep", r |-> r, lo |-> lo, hi |-> hi]
Opt(r) == Rep(r, 0, 1)
Star(r) == Rep(r, 0, Unbounded)
Plus(r) == Rep(r, 1, Unbounded)
Cap(n, r) == [t |-> "cap", n |-> n, r |-> r]
NotAhead(r) == [t |-> "nla", r |-> r]
Bol == [t |-> "bol"]
Eol == [t |-> "eol"]
WordB == [t |-> "wordb"]
AnyOf(ws) == Alt([k \in 1..Len(ws) |-> Lit(ws[k])])
\* (.+)
CapRest(n) == Cap(n, Plus(Cls(".")))

\* a pattern made with the g flag, which reads and writes its lastIndex
RegExpGlobal(re, ci) == [re |-> re, ci |-> ci, g |-> TRUE]

\* a pattern as the file writes them all: with the i flag or with no flag,
\* never with g or y
RegExp(re, ci) == [re |-> re, ci |-> ci, g |-> FALSE]

InClass(c, ch) ==
  CASE c = "d" -> ch \in DigitSet
    [] c = "s" -> ch \in SpaceSet
    [] c = "w" -> ch \in WordSet
    [] c = "." -> ch \notin {"\n", "\r"}
    [] OTHER -> ch = c

IsWordAt(s, i) == i >= 1 /\ i <= Len(s) /\ CharAt(s, i) \in WordSet

\* no group has taken part yet (a pattern has at most four groups)
NoCaps == << <<0, 0>>, <<0, 0>>, <<0, 0>>, <<0, 0>> >>

RECURSIVE Match(_, _, _, _)
RECURSIVE MatchCat(_, _, _, _, _)
RECURSIVE MatchRep(_, _, _, _, _)
RECURSIVE MatchEach(_, _, _, _, _)

Here(i, caps) == << [e |-> i, caps |-> caps] >>

\* the length of the longest run of characters of class c that starts at i
RunLength(c, s, i) ==
  CHOOSE n \in 0..(Len(s) + 1 - i) :
    /\ \A k \in i..(i + n - 1) : InClass(c, CharAt(s, k))
    /\ (i + n <= Len(s) => ~InClass(c, CharAt(s, i + n)))

\* a greedy quantifier on one character class: the longest run first, then
\* each shorter one down to r.lo characters
MatchRun(r, s, i, caps) ==
  LET run == RunLength(r.r.c, s, i)
      most == IF r.hi = Unbounded THEN run ELSE Min(run, r.hi)
  IN  Tuple([k \in 1..(most - r.lo + 1) |->
               [e |-> i + most - (k - 1), caps |-> caps]])

Match(r, s, i, caps) ==
  CASE r.t = "lit" ->
         IF i + Len(r.s) - 1 <= Len(s) /\ SubSeq(s, i, i + Len(r.s) - 1) = r.s
           THEN Here(i + Len(r.s), caps) ELSE <<>>
    [] r.t = "cls" ->
         IF i <= Len(s) /\ InClass(r.c, CharAt(s, i))
           THEN Here(i + 1, caps) ELSE <<>>
    [] r.t = "cat" -> MatchCat(r.rs, 1, s, i, caps)
    [] r.t = "alt" ->
         Flatten([k \in 1..Len(r.rs) |-> Match(r.rs[k], s, i, caps)])
    [] r.t = "rep" ->
         IF r.r.t = "cls" THEN MatchRun(r, s, i, caps)
                          ELSE MatchRep(r, 0, s, i, caps)
    [] r.t = "cap" ->
         LET ms == Match(r.r, s, i, caps)
         IN  Tuple([k \in 1..Len(ms) |->
                     [e |-> ms[k].e,
                      caps |-> [ms[k].caps EXCEPT ![r.n] = <<i, ms[k].e>>]]])
    [] r.t = "nla" ->
         IF Match(r.r, s, i, caps) = <<>> THEN Here(i, caps) ELSE <<>>
    [] r.t = "bol" -> IF i = 1 THEN Here(i, caps) ELSE <<>>
    [] r.t = "eol" -> IF i = Len(s) + 1 THEN Here(i, caps) ELSE <<>>
    [] r.t = "wordb" ->
         IF IsWordAt(s, i - 1) # IsWordAt(s, i) THEN Here(i, caps) ELSE <<>>

MatchCat(rs, k, s, i, caps) ==
  IF k > Len(rs)
    THEN Here(i, caps)
    ELSE LET ms == Match(rs[k], s, i, caps)
         IN  Flatten([j \in 1..Len(ms) |->
                        MatchCat(rs, k + 1, s, ms[j].e, ms[j].caps)])

\* one more iteration of r.r for each way ms[j] of matching it (an iteration
\* that consumes nothing ends the repetition), then the iterations after it
MatchEach(r, n, s, i, ms) ==
  Flatten([j \in 1..Len(ms) |->
             IF ms[j].e > i \/ n < r.lo
               THEN MatchRep(r, n + 1, s, ms[j].e, ms[j].caps)
               ELSE <<>>])

\* r.r repeated greedily; n iterations are done
MatchRep(r, n, s, i, caps) ==
  (IF r.hi = Unbounded \/ n < r.hi
     THEN MatchEach(r, n, s, i, Match(r.r, s, i, caps))
     ELSE <<>>)
  \o (IF n >= r.lo THEN Here(i, caps) ELSE <<>>)

NoMatch == [found |-> FALSE, from |-> 0, e |-> 0, caps |-> NoCaps]

\* the least k with hit[k], and 0 when there is none
FirstTrue(hit) ==
  IF \A k \in 1..Len(hit) : ~hit[k]
    THEN 0
    ELSE CHOOSE k \in 1..Len(hit) : hit[k] /\ \A j \in 1..(k - 1) : ~hit[j]

\* the first of the matches ms[i] from position i, no match when i is 0
MatchAt(ms, i) ==
  IF i = 0
    THEN NoMatch
    ELSE [found |-> TRUE, from |-> i, e |-> ms[i][1].e, caps |-> ms[i][1].caps]

\* the first match at the first start position that has one; ms[i] holds
\* the matches from position i
Leftmost(ms) == MatchAt(ms, FirstTrue([i \in 1..Len(ms) |-> ms[i] # <<>>]))

\* the leftmost start position with a match, and the first match there
ExecAt(re, s) ==
  Leftmost(Tuple([i \in 1..(Len(s) + 1) |-> Match(re, s, i, NoCaps)]))

\* String.prototype.match with a pattern without the g flag (RegExp.exec)
Exec(rx, str) == ExecAt(rx.re, IF rx.ci THEN ToLowerCase(str) ELSE str)

\* RegExp.prototype.test
Test(rx, str) == Exec(rx, str).found

\* RegExp.prototype.exec of a pattern whose lastIndex is li: with the g flag
\* the search starts at lastIndex, without it at the start of the string
ExecFrom(rx, str, li) ==
  IF rx.g
    THEN Leftmost(Tuple([i \in 1..(Len(str) + 1) |->
           IF i > li
             THEN Match(rx.re, IF rx.ci THEN ToLowerCase(str) ELSE str, i,
                        NoCaps)
             ELSE <<>>]))
    ELSE Exec(rx, str)

\* the lastIndex that exec leaves: with the g flag the end of the match, or
\* 0 after a failure; without it lastIndex is not written
IndexAfter(rx, m, li) ==
  IF rx.g THEN (IF m.found THEN m.e - 1 ELSE 0) ELSE li

\* RegExp.prototype.test of a pattern whose lastIndex is li
TestFrom(rx, str, li) == ExecFrom(rx, str, li).found

\* match[0]
Whole(m, str) == SubSeq(str, m.from, m.e - 1)

\* match[n], n >= 1: undefined when the group took no part in the match
Group(m, str, n) ==
  IF m.caps[n] = <<0, 0>>
    THEN None
    ELSE Some(SubSeq(str, m.caps[n][1], m.caps[n][2] - 1))

\* String.prototype.replace with a pattern without the g flag and "" as the
\* replacement: the first match is removed
Without(m, str) ==
  IF m.found
    THEN SubSeq(str, 1, m.from - 1) \o SubSeq(str, m.e, Len(str))
    ELSE str

Remove(rx, str) == Without(Exec(rx, str), str)

(***************************************************************************)
(* Numbers.  A JavaScript number is NaN or an exact fraction n/d in lowest *)
(* terms with d > 0 (the inputs of the model have few enough digits for    *)
(* the floating-point results to be exact to the digits printed).  A       *)
(* comparison with NaN is false.                                           *)
(***************************************************************************)
NaN == [nan |-> TRUE, n |-> 0, d |-> 1]

RECURSIVE GCD(_, _)
GCD(a, b) == IF b = 0 THEN a ELSE GCD(b, a % b)

Frac(n, d) ==
  LET g == GCD(IF n < 0 THEN -n ELSE n, d)
  IN  [nan |-> FALSE, n |-> n \div g, d |-> d \div g]

Num(n) == Frac(n, 1)

IsNaN(a) == a.nan
Lt(a, b) == ~a.nan /\ ~b.nan /\ a.n * b.d < b.n * a.d
Le(a, b) == ~a.nan /\ ~b.nan /\ a.n * b.d <= b.n * a.d
Gt(a, b) == Lt(b, a)
Ge(a, b) == Le(b, a)
Times(a, k) == IF a.nan THEN NaN ELSE Frac(a.n * k, a.d)
Over(a, k) == IF a.nan THEN NaN ELSE Frac(a.n, a.d * k)
\* Math.min
MathMin(a, b) == IF a.nan \/ b.nan THEN NaN ELSE IF Lt(b, a) THEN b ELSE a

DigitValue(c) == CHOOSE v \in 0..9 : CharAt(DigitChars, v + 1) = c

RECURSIVE DigitsValue(_)
\* the value of a string of decimal digits
DigitsValue(ds) ==
  IF ds = ""
    THEN 0
    ELSE 10 * DigitsValue(SubSeq(ds, 1, Len(ds) - 1))
         + DigitValue(CharAt(ds, Len(ds)))

RECURSIVE Pow10(_)
Pow10(k) == IF k = 0 THEN 1 ELSE 10 * Pow10(k - 1)

\* the longest prefix digits[.digits] of a string, as parseFloat reads it
DecimalPrefix ==
  RegExp(Cat(<<Bol, Cap(1, Plus(Cls("d"))),
               Opt(Cat(<<Lit("."), Cap(2, Plus(Cls("d")))>>))>>), FALSE)

\* parseFloat, for a string that starts with an unsigned decimal or with
\* something that is no number at all
\* the number whose digits are whole, then frac after the point
Decimal(whole, frac) == Frac(DigitsValue(whole \o frac), Pow10(Len(frac)))

\* the text of group n of m, "" when the group took no part
GroupText(m, str, n) ==
  IF IsSome(Group(m, str, n)) THEN Get(Group(m, str, n)) ELSE ""

NumberAt(m, v) ==
  IF ~m.found THEN NaN ELSE Decimal(GroupText(m, v, 1), GroupText(m, v, 2))

ParseFloat(v) == NumberAt(Exec(DecimalPrefix, v), v)

\* parseInt(v, 10), for a string that starts with digits or is no number
ParseInt(v) ==
  NumberAt(Exec(RegExp(Cat(<<Bol, Cap(1, Plus(Cls("d")))>>), FALSE), v), v)

\* Number.prototype.toFixed(2) followed by parseFloat: the nearest multiple
\* of 1/100 (halves up), for a number that is not negative
ToFixed2(a) ==
  IF a.nan THEN NaN ELSE Frac((2 * a.n * 100 + a.d) \div (2 * a.d), 100)

(***************************************************************************)
(* INTENT_PATTERNS: the rule table, in declaration order (the order in     *)
(* which Object.entries lists it).                                         *)
(***************************************************************************)
The == Opt(Lit(" the"))
Me == Opt(Lit(" me"))
\* reviews?, comments?, details?, ...
Plural(w) == Cat(<<Lit(w), Opt(Lit("s"))>>)
ReviewsOrComments == Alt(<<Plural("review"), Plural("comment")>>)
DetailsOrInfo == Alt(<<Plural("detail"), Lit("info"), Lit("information")>>)
OptDigits == Opt(Plus(Cls("d")))

product_price_patterns ==
  << RegExp(Cat(<<AnyOf(<<"what is", "what's", "show", "tell", "get">>), The,
                  Lit(" price "), AnyOf(<<"of", "for">>), Lit(" "),
                  CapRest(1)>>), TRUE),
     RegExp(Cat(<<Lit("how much "), AnyOf(<<"is", "does", "cost">>), Lit(" "),
                  CapRest(1)>>), TRUE),
     RegExp(Cat(<<Lit("price of "), CapRest(1)>>), TRUE) >>

product_reviews_patterns ==
  << RegExp(Cat(<<AnyOf(<<"show", "get", "find">>), Me, The, Lit(" "),
                  ReviewsOrComments, Lit(" "),
                  AnyOf(<<"of", "on", "for", "about">>), Lit(" "),
                  CapRest(1)>>), TRUE),
     RegExp(Cat(<<AnyOf(<<"what are", "what's">>), The, Lit(" "),
                  ReviewsOrComments, Lit(" "), AnyOf(<<"of", "on", "for">>),
                  Lit(" "), CapRest(1)>>), TRUE),
     RegExp(Cat(<<Lit("top "), OptDigits, Lit(" "), ReviewsOrComments,
                  Lit(" "), AnyOf(<<"of", "on", "for">>), Lit(" "),
                  CapRest(1)>>), TRUE) >>

product_info_patterns ==
  << RegExp(Cat(<<AnyOf(<<"tell me", "what is", "what's", "show me">>),
                  Lit(" "), AnyOf(<<"about", "more about">>), Lit(" "),
                  CapRest(1)>>), TRUE),
     RegExp(Cat(<<DetailsOrInfo, Lit(" "),
                  AnyOf(<<"of", "on", "about", "for">>), Lit(" "),
                  CapRest(1)>>), TRUE),
     RegExp(Cat(<<Alt(<<Plural("specification"), Plural("spec")>>), Lit(" "),
                  AnyOf(<<"of", "for">>), Lit(" "), CapRest(1)>>), TRUE) >>

product_comparison_patterns ==
  << RegExp(Cat(<<Lit("compare "), CapRest(1), Lit(" "),
                  AnyOf(<<"and", "vs", "versus", "with">>), Lit(" "),
                  CapRest(2)>>), TRUE),
     RegExp(Cat(<<AnyOf(<<"which is", "what's">>), Lit(" better"),
                  Opt(AnyOf(<<",", ":">>)), Lit(" "), CapRest(1), Lit(" or "),
                  CapRest(2)>>), TRUE),
     RegExp(Cat(<<Lit("difference between "), CapRest(1), Lit(" and "),
                  CapRest(2)>>), TRUE) >>

product_search_patterns ==
  << RegExp(Cat(<<AnyOf(<<"best", "top">>), Lit(" "), OptDigits, Lit(" "),
                  CapRest(1)>>), TRUE),
     RegExp(Cat(<<Lit("recommend"), Me, Opt(Lit(" some")), Lit(" "),
                  CapRest(1)>>), TRUE),
     RegExp(Cat(<<AnyOf(<<"show", "list">>), Lit(" "),
                  AnyOf(<<"top", "best">>), Lit(" "), CapRest(1)>>), TRUE) >>

email_request_patterns ==
  << RegExp(Cat(<<AnyOf(<<"email", "mail", "send">>), Me, The, Lit(" "),
                  DetailsOrInfo, Lit(" "),
                  AnyOf(<<"of", "on", "about", "for">>), Lit(" "),
                  CapRest(1)>>), TRUE),
     RegExp(Cat(<<Lit("send "), Alt(<<Plural("detail"), Lit("info")>>),
                  Lit(" "), AnyOf(<<"of", "on", "about">>), Lit(" "),
                  CapRest(1), Lit(" to "), Opt(Lit("my ")),
                  AnyOf(<<"email", "mail">>)>>), TRUE),
     RegExp(Cat(<<AnyOf(<<"email", "mail", "send">>), Lit(" "),
                  AnyOf(<<"me", "this", "that">>),
                  Opt(AnyOf(<<" product", " product details">>))>>), TRUE),
     RegExp(Cat(<<Lit("share "), CapRest(1), Lit(" "),
                  AnyOf(<<"via", "through", "by">>), Lit(" email")>>), TRUE),
     RegExp(Cat(<<AnyOf(<<"email", "send", "mail">>), Lit(" me "),
                  Opt(AnyOf(<<"about ", "details of ">>)), CapRest(1)>>),
            TRUE) >>

greeting_patterns ==
  << RegExp(Cat(<<Bol,
                  Alt(<<Lit("hi"), Lit("hello"), Lit("hey"),
                        Plural("greeting")>>),
                  Star(Alt(<<Cls("s"), Lit("!"), Lit(".")>>)), Eol>>),
            TRUE) >>

about_me_patterns ==
  << RegExp(Cat(<<AnyOf(<<"who made", "who created", "who built",
                          "who owns">>), Lit(" "),
                  AnyOf(<<"you", "bert5">>)>>), TRUE),
     RegExp(Cat(<<Lit("who "), AnyOf(<<"are you", "is", "made">>)>>), TRUE),
     RegExp(Cat(<<Lit("what "), AnyOf(<<"are you", "is bert5">>)>>), TRUE),
     RegExp(Cat(<<Lit("tell me about "),
                  AnyOf(<<"yourself", "bert5", "you">>)>>), TRUE),
     RegExp(Cat(<<AnyOf(<<"about", "creator", "creator of">>), Lit(" "),
                  AnyOf(<<"bert5", "you">>)>>), TRUE) >>

general_question_patterns ==
  << RegExp(Cat(<<Lit("what is "), CapRest(1), Lit("?")>>), TRUE),
     RegExp(Cat(<<Lit("how does "), CapRest(1), Lit(" work"),
                  Opt(Lit("?"))>>), TRUE),
     RegExp(Cat(<<Lit("why "), AnyOf(<<"is", "does">>), Lit(" "), CapRest(1),
                  Opt(Lit("?"))>>), TRUE),
     RegExp(Cat(<<Lit("explain "), CapRest(1)>>), TRUE) >>

INTENT_PATTERNS ==
  << [intent |-> "product_price",
      keywords |-> <<"price", "cost", "expensive", "cheap", "rate", "mrp",
                     "discount", "offer", "deal">>,
      patterns |-> product_price_patterns],
     [intent |-> "product_reviews",
      keywords |-> <<"review", "comment", "feedback", "opinion", "rating",
                     "testimonial", "experience">>,
      patterns |-> product_reviews_patterns],
     [intent |-> "product_info",
      keywords |-> <<"about", "detail", "specification", "spec", "feature",
                     "information", "describe">>,
      patterns |-> product_info_patterns],
     [intent |-> "product_comparison",
      keywords |-> <<"compare", "comparison", "vs", "versus", "difference",
                     "better", "best between">>,
      patterns |-> product_comparison_patterns],
     [intent |-> "product_search",
      keywords |-> <<"best", "top", "recommend", "suggest", "good",
                     "popular", "trending">>,
      patterns |-> product_search_patterns],
     [intent |-> "email_request",
      keywords |-> <<"email", "mail", "send", "forward", "share">>,
      patterns |-> email_request_patterns],
     [intent |-> "greeting",
      keywords |-> <<"hello", "hi", "hey", "greetings", "good morning",
                     "good afternoon", "good evening">>,
      patterns |-> greeting_patterns],
     [intent |-> "about_me",
      keywords |-> <<"who made", "who created", "who owns", "made by",
                     "created by", "who are you", "what are you",
                     "tell me about yourself", "about you">>,
      patterns |-> about_me_patterns],
     [intent |-> "general_question",
      keywords |-> <<"what", "why", "how", "when", "where", "explain",
                     "meaning", "define">>,
      patterns |-> general_question_patterns] >>

\* the QueryIntent type
QueryIntent ==
  {"product_price", "product_reviews", "product_info", "product_comparison",
   "product_search", "email_request", "general_question", "greeting",
   "about_me", "unknown"}

\* table[intent]: undefined for an intent without an entry
Entry(table, intent) ==
  IF \A k \in 1..Len(table) : table[k].intent # intent
    THEN None
    ELSE Some(table[CHOOSE k \in 1..Len(table) : table[k].intent = intent])

\* INTENT_PATTERNS[intent]: undefined for an intent without an entry
ConfigOf(intent) == Entry(INTENT_PATTERNS, intent)

(***************************************************************************)
(* The entity extractors.                                                  *)
(***************************************************************************)
LimitPattern ==
  RegExp(Cat(<<AnyOf(<<"top", "show", "get", "list", "first">>),
               Plus(Cls("s")),
               Cap(1, Alt(<<Plus(Cls("d")), Lit("five"), Lit("ten"),
                            Lit("twenty")>>))>>), TRUE)

\* numMap[value]: undefined for a key the map does not hold
NumMap(value) ==
  CASE value = "five" -> Some(Num(5))
    [] value = "ten" -> Some(Num(10))
    [] value = "twenty" -> Some(Num(20))
    [] OTHER -> None


\* numMap[value] || parseInt(match[1], 10)
LimitNumber(mapped, text) ==
  IF IsSome(mapped) THEN Get(mapped) ELSE ParseInt(text)

\* the range check with its upper end left out
ValidLimitUncapped(num) ==
  IF IsNaN(num) \/ Le(num, Num(0)) THEN None ELSE Some(num)

\* the number when it is valid and within 1..100
ValidLimit(num) ==
  IF IsNaN(num) \/ Le(num, Num(0)) \/ Gt(num, Num(100))
    THEN None
    ELSE Some(num)

LimitOf(match, query) ==
  IF match.found
    THEN ValidLimit(LimitNumber(
           NumMap(ToLowerCase(Get(Group(match, query, 1)))),
           Get(Group(match, query, 1))))
    ELSE None

extractLimit(query) == LimitOf(Exec(LimitPattern, query), query)

\* /smartphone|\bphone/i, without the lookahead
SmartphoneRegexWithoutLookahead ==
  RegExp(Alt(<<Lit("smartphone"), Cat(<<WordB, Lit("phone")>>)>>), TRUE)

\* /smartphone|\bphone(?!\s*(?:charger|case|cover|holder|stand|mount))/i
SmartphoneRegex ==
  RegExp(Alt(<<Lit("smartphone"),
               Cat(<<WordB, Lit("phone"),
                     NotAhead(Cat(<<Star(Cls("s")),
                                    AnyOf(<<"charger", "case", "cover",
                                            "holder", "stand",
                                            "mount">>)>>))>>)>>),
         TRUE)

categoryPatterns ==
  << [regex |-> RegExp(AnyOf(<<"headphone", "earphone", "earbud",
                               "headset">>), TRUE),
      category |-> "headphone"],
     [regex |-> SmartphoneRegex, category |-> "smartphone"],
     [regex |-> RegExp(Alt(<<Cat(<<WordB, Lit("tv"), WordB>>),
                             Lit("television")>>), TRUE),
      category |-> "tv"],
     [regex |-> RegExp(AnyOf(<<"speaker", "audio">>), TRUE),
      category |-> "speaker"],
     [regex |-> RegExp(AnyOf(<<"laptop", "notebook">>), TRUE),
      category |-> "laptop"],
     [regex |-> RegExp(AnyOf(<<"tablet", "ipad">>), TRUE),
      category |-> "tablet"],
     [regex |-> RegExp(AnyOf(<<"watch", "smartwatch">>), TRUE),
      category |-> "watch"],
     [regex |-> RegExp(Lit("camera"), TRUE), category |-> "camera"] >>

\* the category of entry k, undefined when k is 0
CategoryAt(k) == IF k = 0 THEN None ELSE Some(categoryPatterns[k].category)

\* the category of the last pattern, in order, that matches
extractCategoryLast(query) ==
  CategoryAt((Len(categoryPatterns) + 1
              - FirstTrue([k \in 1..Len(categoryPatterns) |->
                  Test(categoryPatterns[Len(categoryPatterns) + 1 - k].regex,
                       query)]))
             % (Len(categoryPatterns) + 1))

\* the category of the first pattern, in order, that matches
extractCategory(query) ==
  CategoryAt(FirstTrue([k \in 1..Len(categoryPatterns) |->
                          Test(categoryPatterns[k].regex, query)]))

Brands ==
  <<"iqoo", "oneplus", "samsung", "mi", "boat", "sony", "apple", "realme",
    "redmi", "oppo", "vivo", "lg", "dell", "hp", "lenovo", "asus", "acer",
    "msi", "jbl", "bose", "philips", "amazon", "xiaomi", "motorola",
    "nokia">>

\* new RegExp(`\\b(${brand}(?:\\s+\\w+){0,3})\\b`, "i")
BrandRegex(brand) ==
  RegExp(Cat(<<WordB,
               Cap(1, Cat(<<Lit(brand),
                            Rep(Cat(<<Plus(Cls("s")), Plus(Cls("w"))>>),
                                0, 3)>>)),
               WordB>>), TRUE)

BRAND_PATTERNS ==
  [k \in 1..Len(Brands) |-> [brand |-> Brands[k], regex |-> BrandRegex(Brands[k])]]

\* a string is truthy when it is defined and not empty
Truthy(o) == IsSome(o) /\ Get(o) # ""

LeadingPhrase ==
  RegExp(Cat(<<Bol,
               AnyOf(<<"what is", "what's", "show me", "tell me", "get",
                       "find">>),
               Plus(Cls("s"))>>), TRUE)

TrailingQuestionMark == RegExp(Cat(<<Lit("?"), Eol>>), FALSE)

\* the first capture, in order, that is truthy, trimmed
FirstCapture(captures) ==
  IF FirstTrue([k \in 1..Len(captures) |-> Truthy(captures[k])]) = 0
    THEN None
    ELSE Some(Trim(Get(captures[
           FirstTrue([k \in 1..Len(captures) |-> Truthy(captures[k])])])))

\* the first capture of the regex of the last brand, in list order, that
\* the query includes and whose regex matches with a truthy capture
BrandNameLastListed(query) ==
  FirstCapture(Tuple([k \in 1..Len(BRAND_PATTERNS) |->
    IF Includes(ToLowerCase(query),
                BRAND_PATTERNS[Len(BRAND_PATTERNS) + 1 - k].brand)
      THEN Group(Exec(BRAND_PATTERNS[Len(BRAND_PATTERNS) + 1 - k].regex,
                      query), query, 1)
      ELSE None]))

\* the first capture of the regex of the first brand, in list order, that
\* the query includes and whose regex matches with a truthy capture
BrandName(query) ==
  FirstCapture(Tuple([k \in 1..Len(BRAND_PATTERNS) |->
    IF Includes(ToLowerCase(query), BRAND_PATTERNS[k].brand)
      THEN Group(Exec(BRAND_PATTERNS[k].regex, query), query, 1)
      ELSE None]))

\* the first capture of the first pattern, in order, whose first capture is
\* truthy
PatternCapture(patterns, query) ==
  FirstCapture(Tuple([k \in 1..Len(patterns) |->
                        Group(Exec(patterns[k], query), query, 1)]))

\* the query without its leading phrase and trailing question mark,
\* undefined when nothing is left
Cleaned(cleaned) == IF Len(cleaned) > 0 THEN Some(cleaned) ELSE None

NameOrCleaned(captured, query) ==
  IF IsSome(captured)
    THEN captured
    ELSE Cleaned(Trim(Remove(TrailingQuestionMark,
                             Remove(LeadingPhrase, query))))

NameFrom(intentConfig, query) ==
  IF ~IsSome(intentConfig)
    THEN None
    ELSE NameOrCleaned(PatternCapture(Get(intentConfig).patterns, query),
                       query)

\* the product name read from the patterns of the intent, whatever the
\* intent
extractProductNameFromPatterns(query, intent) ==
  NameFrom(ConfigOf(intent), query)

extractProductName(query, intent) ==
  IF intent = "product_search"
    THEN BrandName(query)
    ELSE NameFrom(ConfigOf(intent), query)

\* parsePrice, the helper of extractPriceRange: PriceOf is its body after
\* parseFloat
PriceOf(num, lowerValue) ==
  IF IsNaN(num)
    THEN NaN
    ELSE IF Includes(lowerValue, "k")
      THEN Times(num, 1000)
      ELSE IF Includes(lowerValue, "lakh") \/ Includes(lowerValue, "lac")
        THEN Times(num, 100000)
        ELSE num

parsePrice(value) == PriceOf(ParseFloat(value), ToLowerCase(value))

\* ₹?(\d+(?:\.\d+)?)\s*k?(?:lakh|lac)?
Amount(n) ==
  Cat(<<Opt(Lit("₹")),
        Cap(n, Cat(<<Plus(Cls("d")),
                     Opt(Cat(<<Lit("."), Plus(Cls("d"))>>))>>)),
        Star(Cls("s")), Opt(Lit("k")), Opt(AnyOf(<<"lakh", "lac">>))>>)

RangePattern ==
  RegExp(Cat(<<AnyOf(<<"between", "from">>), Plus(Cls("s")), Amount(1),
               Plus(Cls("s")), AnyOf(<<"to", "and", "-">>), Plus(Cls("s")),
               Amount(2)>>), TRUE)

UnderPattern == RegExp(Cat(<<Lit("under"), Plus(Cls("s")), Amount(1)>>), TRUE)

AbovePattern == RegExp(Cat(<<Lit("above"), Plus(Cls("s")), Amount(1)>>), TRUE)

\* the fixed upper bound of an "above" range
AboveMax == 999999

\* match[n] + (match[0].toLowerCase().includes("k") ? "k" : "")
WithK(match, query, n) ==
  Get(Group(match, query, n))
  \o (IF Includes(ToLowerCase(Whole(match, query)), "k") THEN "k" ELSE "")

\* the range of the between/from phrasing
RangeOf(min, max) ==
  IF \/ IsNaN(min) \/ IsNaN(max)
     \/ Lt(min, Num(0)) \/ Lt(max, Num(0)) \/ Ge(min, max)
    THEN None
    ELSE Some([min |-> min, max |-> max])

\* the under phrasing without its check of the bound
UnderOfUnchecked(max) == Some([min |-> Num(0), max |-> max])

\* the range of the under phrasing
UnderOf(max) ==
  IF IsNaN(max) \/ Le(max, Num(0))
    THEN None
    ELSE Some([min |-> Num(0), max |-> max])

\* the range of the above phrasing
AboveOf(min) ==
  IF IsNaN(min) \/ Lt(min, Num(0))
    THEN None
    ELSE Some([min |-> min, max |-> Num(AboveMax)])

\* the phrasings with under and above tried after a between/from match
\* whose bounds are rejected
PriceRangeOfFallingThrough(rangeMatch, underMatch, aboveMatch, query) ==
  IF /\ rangeMatch.found
     /\ IsSome(RangeOf(parsePrice(WithK(rangeMatch, query, 1)),
                       parsePrice(WithK(rangeMatch, query, 2))))
    THEN RangeOf(parsePrice(WithK(rangeMatch, query, 1)),
                 parsePrice(WithK(rangeMatch, query, 2)))
    ELSE IF underMatch.found
      THEN UnderOf(parsePrice(WithK(underMatch, query, 1)))
      ELSE IF aboveMatch.found
        THEN AboveOf(parsePrice(WithK(aboveMatch, query, 1)))
        ELSE None

\* the phrasings with above tried before under
PriceRangeOfAboveFirst(rangeMatch, underMatch, aboveMatch, query) ==
  IF rangeMatch.found
    THEN RangeOf(parsePrice(WithK(rangeMatch, query, 1)),
                 parsePrice(WithK(rangeMatch, query, 2)))
    ELSE IF aboveMatch.found
      THEN AboveOf(parsePrice(WithK(aboveMatch, query, 1)))
      ELSE IF underMatch.found
        THEN UnderOf(parsePrice(WithK(underMatch, query, 1)))
        ELSE None

PriceRangeOf(rangeMatch, underMatch, aboveMatch, query) ==
  IF rangeMatch.found
    THEN RangeOf(parsePrice(WithK(rangeMatch, query, 1)),
                 parsePrice(WithK(rangeMatch, query, 2)))
    ELSE IF underMatch.found
      THEN UnderOf(parsePrice(WithK(underMatch, query, 1)))
      ELSE IF aboveMatch.found
        THEN AboveOf(parsePrice(WithK(aboveMatch, query, 1)))
        ELSE None

extractPriceRange(query) ==
  PriceRangeOf(Exec(RangePattern, query), Exec(UnderPattern, query),
               Exec(AbovePattern, query), query)

productKeywords ==
  <<"smartphone", "phone", "mobile", "cable", "charger", "adapter", "usb",
    "hdmi", "wire", "bluetooth", "speaker", "headphone", "earphone",
    "earbud", "tv", "television", "remote", "mouse", "keyboard", "laptop",
    "tablet", "watch", "camera", "boat", "amazon", "samsung", "mi",
    "oneplus", "apple", "iqoo", "brand">>

isProductRelated(query) ==
  LET lowerQuery == ToLowerCase(query)
  IN  \E k \in 1..Len(productKeywords) :
        Includes(lowerQuery, productKeywords[k])

(***************************************************************************)
(* classifyIntent, stage by stage.                                         *)
(***************************************************************************)
\* the emptiness test without the trim
IsBlankWithoutTrim(q) ==
  IF ~IsSome(q) THEN TRUE ELSE Get(q) = ""

\* !query || query.trim().length === 0
IsBlank(q) ==
  IF ~IsSome(q) THEN TRUE
  ELSE IF Get(q) = "" THEN TRUE
  ELSE Len(Trim(Get(q))) = 0

\* the score of one rule with the 5 added for every pattern that matches
IntentScorePerPattern(config, q, li) ==
  LET lowerQuery == ToLowerCase(q)
      keywordMatches ==
        SelectSeq(config.keywords, LAMBDA kw : Includes(lowerQuery, kw))
      patternMatches ==
        { k \in 1..Len(config.patterns) :
            TestFrom(config.patterns[k], q, li[k]) }
  IN  Len(keywordMatches) * 2 + Cardinality(patternMatches) * 5

\* the score of one rule: 2 for each keyword the lower-cased query includes,
\* and 5 when some pattern, tested from its lastIndex li[k], matches the
\* query
IntentScore(config, q, li) ==
  LET lowerQuery == ToLowerCase(q)
      keywordMatches ==
        SelectSeq(config.keywords, LAMBDA kw : Includes(lowerQuery, kw))
      patternMatch ==
        \E k \in 1..Len(config.patterns) :
          TestFrom(config.patterns[k], q, li[k])
  IN  Len(keywordMatches) * 2 + (IF patternMatch THEN 5 ELSE 0)

\* the scores of the rules, in the order of the loop; li[k][j] is the
\* lastIndex of pattern j of rule k
IntentScores(q, li) ==
  Tuple([k \in 1..Len(INTENT_PATTERNS) |->
           IntentScore(INTENT_PATTERNS[k], q, li[k])])

\* the lastIndex of each pattern of one rule after patterns.some(p =>
\* p.test(query)): the patterns are tested in order up to the first that
\* matches, and a test writes lastIndex only under the g flag
TestedIndex(patterns, q, li) ==
  Tuple([j \in 1..Len(patterns) |->
    IF ~patterns[j].g THEN li[j]
    ELSE IF \E i \in 1..(j - 1) : TestFrom(patterns[i], q, li[i]) THEN li[j]
    ELSE IndexAfter(patterns[j], ExecFrom(patterns[j], q, li[j]), li[j])])

\* the lastIndex of every pattern of the table after the loop
IndexesAfter(q, li) ==
  Tuple([k \in 1..Len(INTENT_PATTERNS) |->
           TestedIndex(INTENT_PATTERNS[k].patterns, q, li[k])])

\* the lastIndex of every pattern of the table when the module is loaded
ZeroIndex ==
  Tuple([k \in 1..Len(INTENT_PATTERNS) |->
           Tuple([j \in 1..Len(INTENT_PATTERNS[k].patterns) |-> 0])])

\* the comparison of the loop with >= for >
BetterOrEqual(score, max) == score >= max

\* if (score > maxScore)
Better(score, max) == score > max

RECURSIVE ScanScoresKeepingLast(_, _, _, _)
\* the loop with the last of the rules that share the highest score kept
ScanScoresKeepingLast(sc, k, best, max) ==
  IF k > Len(sc)
    THEN [bestIntent |-> best, maxScore |-> max]
    ELSE IF sc[k] > 0 /\ sc[k] >= max
      THEN ScanScoresKeepingLast(sc, k + 1, INTENT_PATTERNS[k].intent, sc[k])
      ELSE ScanScoresKeepingLast(sc, k + 1, best, max)

RECURSIVE ScanScores(_, _, _, _)
\* the loop over Object.entries(INTENT_PATTERNS), from rule k on
ScanScores(sc, k, best, max) ==
  IF k > Len(sc)
    THEN [bestIntent |-> best, maxScore |-> max]
    ELSE IF Better(sc[k], max)
      THEN ScanScores(sc, k + 1, INTENT_PATTERNS[k].intent, sc[k])
      ELSE ScanScores(sc, k + 1, best, max)

Interrogative ==
  RegExp(Cat(<<Bol, Cap(1, AnyOf(<<"what", "why", "how", "when", "where",
                                   "who">>))>>), TRUE)

\* the two fallback statements in the other order
ApplyFallbackInterrogativeFirst(best, max, q) ==
  LET first == IF max = 0 /\ Test(Interrogative, q)
                 THEN [bestIntent |-> "general_question", maxScore |-> 2]
                 ELSE [bestIntent |-> best, maxScore |-> max]
  IN  IF first.maxScore = 0 /\ isProductRelated(q)
        THEN [bestIntent |-> "product_info", maxScore |-> 3]
        ELSE first

\* the two fallback statements, in the order of the code
ApplyFallback(best, max, q) ==
  LET first == IF max = 0 /\ isProductRelated(q)
                 THEN [bestIntent |-> "product_info", maxScore |-> 3]
                 ELSE [bestIntent |-> best, maxScore |-> max]
  IN  IF first.maxScore = 0 /\ Test(Interrogative, q)
        THEN [bestIntent |-> "general_question", maxScore |-> 2]
        ELSE first

\* the cap of the score scale
ScoreCap == 10

\* the confidence without the cap
NormalizeUncapped(max) == Over(Num(max), ScoreCap)

\* Math.min(maxScore, 10) / 10
Normalize(max) == Over(MathMin(Num(max), Num(ScoreCap)), ScoreCap)

\* a threshold of 0.3
MIN_CONFIDENCE_0_3 == Frac(3, 10)

MIN_CONFIDENCE == Frac(2, 10)

\* the threshold with <= for <
DemoteAtThreshold(best, max, conf) ==
  IF Le(conf, MIN_CONFIDENCE) /\ best # "greeting" /\ best # "about_me"
    THEN IF max > 0 THEN "general_question" ELSE "unknown"
    ELSE best

\* the minimum-confidence threshold
Demote(best, max, conf) ==
  IF Lt(conf, MIN_CONFIDENCE) /\ best # "greeting" /\ best # "about_me"
    THEN IF max > 0 THEN "general_question" ELSE "unknown"
    ELSE best

\* the table of data intents with email_request left out
dataRequiredIntentsWithoutEmail ==
  {"product_price", "product_reviews", "product_info", "product_comparison",
   "product_search"}

dataRequiredIntents ==
  {"product_price", "product_reviews", "product_info", "product_comparison",
   "product_search", "email_request"}

ExtractEntities(q, intent) ==
  [productName |-> extractProductName(q, intent),
   productCategory |-> extractCategory(q),
   limit |-> extractLimit(q),
   priceRange |-> extractPriceRange(q)]

\* the object literal {} of the early return
NoEntities == <<>>

(***************************************************************************)
(* formatIntentClassification: the classification as text.                 *)
(***************************************************************************)
\* Math.round of a number that is not negative and not NaN
MathRound(a) == (2 * a.n + a.d) \div (2 * a.d)

RECURSIVE IntToString(_)
\* the decimal digits of an integer that is not negative
IntToString(n) ==
  IF n < 10
    THEN CharAt(DigitChars, n + 1)
    ELSE IntToString(n \div 10) \o CharAt(DigitChars, (n % 10) + 1)

RECURSIVE FractionDigits(_, _)
\* the decimal digits of r/d, 0 <= r < d, for a d that divides a power of 10
FractionDigits(r, d) ==
  IF r = 0
    THEN ""
    ELSE CharAt(DigitChars, ((r * 10) \div d) + 1)
         \o FractionDigits((r * 10) % d, d)

\* a number in a template literal (Number.prototype.toString), for a number
\* that is not negative
NumberToString(a) ==
  IF a.nan THEN "NaN"
  ELSE IF a.d = 1 THEN IntToString(a.n)
  ELSE IntToString(a.n \div a.d) \o "." \o FractionDigits(a.n % a.d, a.d)

\* extractedEntities[field], undefined when the object does not hold it
EntityOf(e, field) == IF e = NoEntities THEN None ELSE e[field]

\* the lines for the entities, each written when its value is truthy
EntityLines(productName, limit, priceRange) ==
  (IF Truthy(productName)
     THEN "Product: \"" \o Get(productName) \o "\"\n"
     ELSE "")
  \o (IF IsSome(limit) /\ Get(limit) # Num(0)
        THEN "Limit: " \o NumberToString(Get(limit)) \o "\n"
        ELSE "")
  \o (IF IsSome(priceRange)
        THEN "Price Range: ₹" \o NumberToString(Get(priceRange).min)
             \o " - ₹" \o NumberToString(Get(priceRange).max) \o "\n"
        ELSE "")

formatIntentClassification(classification) ==
  "Intent: " \o classification.intent \o " ("
  \o IntToString(MathRound(Times(classification.confidence, 100)))
  \o "% confident)\n"
  \o "Requires Data: "
  \o (IF classification.requiresData THEN "Yes" ELSE "No") \o "\n"
  \o EntityLines(EntityOf(classification.extractedEntities, "productName"),
                 EntityOf(classification.extractedEntities, "limit"),
                 EntityOf(classification.extractedEntities, "priceRange"))

(***************************************************************************)
(* The state machine: one call of classifyIntent after another.            *)
(***************************************************************************)
VARIABLES
  pc,          \* where the current call stands
  query,       \* its argument: a string, or None for null/undefined
  scores,      \* the score each rule got in the loop, in rule order
  bestIntent,  \* the local bestIntent
  maxScore,    \* the local maxScore
  confidence,  \* the local confidence
  result,      \* what the call returned, None until it returns
  lastIndex,   \* the lastIndex of each pattern of INTENT_PATTERNS, which
               \* are objects made once and shared by all calls
  calls,       \* the number of calls made so far
  text         \* what formatIntentClassification made of the result, None
               \* until it is called

classifierVars ==
  <<pc, query, scores, bestIntent, maxScore, confidence, result, lastIndex,
    calls, text>>

(***************************************************************************)
(* The state of one request to the chat endpoint, POST of                  *)
(* app/api/chat/route.ts.                                                  *)
(***************************************************************************)
VARIABLES
  chatPc,          \* where the request stands
  request,         \* the request: None when its body is not JSON, else
                   \* the message of the body and whether the environment
                   \* has GEMINI_API_TOKEN
  classification,  \* what classifyIntent returned, None before the call
  serviceCalls,    \* the productService and sentiment calls made, in order
  productData,     \* the local productData
  dataErrors,      \* the messages of the errors the catch block of
                   \* enhanceMessageWithProductData logged
  enhancedMessage, \* what enhanceMessageWithProductData returned
  llmPrompts,      \* the prompts generateStreamingResponse was called with
  found,           \* the number of items the first call of the service
                   \* gave back
  response,        \* the Response that was returned, None before
  upstream,        \* the LLM stream: its chunks, whether the read after
                   \* the last of them throws, and how many were read
  upstreamEnded,   \* the for-await loop has seen the end of the LLM stream
  fullResponse,    \* the local fullResponse
  cursor,          \* the local i of the slicing loop
  enqueued,        \* the chunks given to controller.enqueue, in order
  closed           \* the number of calls of controller.close

chatVars ==
  <<chatPc, request, classification, serviceCalls, found, productData,
    dataErrors, enhancedMessage, llmPrompts, response, upstream, upstreamEnded,
    fullResponse, cursor, enqueued, closed>>

\* classifyIntent is not being called
ClassifierIdle ==
  /\ pc = "idle"
  /\ query = None
  /\ scores = <<>>
  /\ bestIntent = "unknown"
  /\ maxScore = 0
  /\ confidence = [nan |-> FALSE, n |-> 0, d |-> 1]
  /\ result = None
  /\ lastIndex = <<>>
  /\ calls = 0
  /\ text = None

\* no request is being served
ChatIdle ==
  /\ chatPc = "idle"
  /\ request = None
  /\ classification = None
  /\ serviceCalls = <<>>
  /\ found = 0
  /\ productData = ""
  /\ dataErrors = <<>>
  /\ enhancedMessage = None
  /\ llmPrompts = <<>>
  /\ response = None
  /\ upstream = None
  /\ upstreamEnded = FALSE
  /\ fullResponse = ""
  /\ cursor = 0
  /\ enqueued = <<>>
  /\ closed = 0

(***************************************************************************)
(* The state of one call of analyzeBatchSentiments, lib/sentimentAnalyzer. *)
(***************************************************************************)
VARIABLES
  batchPc,      \* where the call stands
  texts,        \* its argument
  geminiReady,  \* getGeminiModel gives a model (it throws when there is no
                \* GEMINI_API_TOKEN)
  batchIndex,   \* the local i of the loop
  analyses,     \* the promises of the batch that is awaited: None for an
                \* analysis in flight, else what it settled with
  results       \* the local results

batchVars == <<batchPc, texts, geminiReady, batchIndex, analyses, results>>

\* analyzeBatchSentiments is not being called
BatchIdle ==
  /\ batchPc = "idle"
  /\ texts = <<>>
  /\ geminiReady = FALSE
  /\ batchIndex = 0
  /\ analyses = <<>>
  /\ results = <<>>

(***************************************************************************)
(* The state of one instance of the module lib/mongodb.ts and of the calls *)
(* made of its exports.                                                    *)
(***************************************************************************)
VARIABLES
  mongoPc,        \* "loaded" once the module instance is loaded
  environment,    \* process.env: MONGODB_URI (missing, one the driver
                  \* rejects, or a good one) and NODE_ENV
  client,         \* the module's client: null or the client it made
  clientPromise,  \* the module's clientPromise: null or a promise
  globalPromise,  \* global._mongoClientPromise: undefined or a promise,
                  \* which an earlier instance of the module may have set
  connections,    \* the state of the promise of each connect()
  constructed,    \* the number of MongoClient objects this instance made
  connectCalls,   \* the number of calls of connect() by this instance
  callers         \* the calls of getDatabase, getClient and
                  \* getClientPromise, in order, with what each came to

mongoVars ==
  <<mongoPc, environment, client, clientPromise, globalPromise, connections,
    constructed, connectCalls, callers>>

\* the module is not loaded
MongoIdle ==
  /\ mongoPc = "idle"
  /\ environment = [uri |-> "missing", nodeEnv |-> "production"]
  /\ client = "null"
  /\ clientPromise = "null"
  /\ globalPromise = "undefined"
  /\ connections = [earlier |-> "none", own |-> "none"]
  /\ constructed = 0
  /\ connectCalls = 0
  /\ callers = <<>>

(***************************************************************************)
(* The state of the ChatInterface component                                *)
(* (src/components/ChatInterface.tsx): the two busy flags, the one shared  *)
(* AbortController reference, the controllers that were aborted, and the   *)
(* handleSendMessage invocations that were started, each with the await it *)
(* is suspended at.                                                        *)
(***************************************************************************)
VARIABLES
  isGuest,             \* useAuth(): a guest session, or a signed-in user
  currentChatId,       \* whether a chat is selected
  isLoading,           \* disables the input and the suggestion buttons
  isGenerating,        \* shows the Stop button
  abortControllerRef,  \* 0 for null, or the controller the ref holds
  abortedControllers,  \* the controllers abort() was called on
  invocations          \* the handleSendMessage calls, in the order made

uiVars ==
  <<isGuest, currentChatId, isLoading, isGenerating, abortControllerRef,
    abortedControllers, invocations>>

\* the component as mounted, before it is used
UiIdle ==
  /\ isGuest = TRUE
  /\ currentChatId = FALSE
  /\ isLoading = FALSE
  /\ isGenerating = FALSE
  /\ abortControllerRef = 0
  /\ abortedControllers = {}
  /\ invocations = <<>>

vars == <<classifierVars, chatVars, batchVars, mongoVars, uiVars>>

\* what a step of one of them leaves alone
besidesClassifier == <<chatVars, batchVars, mongoVars, uiVars>>
besidesChat == <<classifierVars, batchVars, mongoVars, uiVars>>
besidesBatch == <<classifierVars, chatVars, mongoVars, uiVars>>
besidesMongo == <<classifierVars, chatVars, batchVars, uiVars>>
besidesUi == <<classifierVars, chatVars, batchVars, mongoVars>>

(***************************************************************************)
(* The arguments the calls are made with.                                  *)
(***************************************************************************)
\* the longest whitespace-only argument has MaxBlank characters
MaxBlank == 3
\* the largest count written in digits after "top", "show", ...
MaxLimitInput == 102

RECURSIVE Blanks(_)
Blanks(n) == IF n = 0 THEN "" ELSE " " \o Blanks(n - 1)

BlankQueries ==
  {None} \cup { Some(Blanks(n)) : n \in 0..MaxBlank }
         \cup { Some("\t"), Some(" \n ") }

UnderAboveQueries ==
  { w \o a \o suf :
      w \in {"under ", "above "},
      a \in {"0", "2", "500", "1000"},
      suf \in {"", "k", " k", "lakh", " lakh", " lac"} }
  \cup {"above 999999", "above 999998", "above 999999k", "under 999999",
        "under 0.5k"}
  \cup { w \o "₹" \o a \o suf \o " phones" :
           w \in {"Under ", "above  "}, a \in {"1.5", "20"},
           suf \in {"", "K", " Lakh"} }

RangeQueries ==
  { w[1] \o a \o sa \o w[2] \o b \o sb :
      w \in {<<"between ", " to ">>, <<"between ", " and ">>,
             <<"from ", " - ">>},
      a \in {"500", "10"}, sa \in {"", "k", " lakh"},
      b \in {"20", "20000"}, sb \in {"", "k"} }
  \cup {"between ₹10k to ₹20k phones", "from 10000 - 20000",
        "between 20 and 10 under 500", "between 5 and 5 above 100",
        "under 500 above 100", "above 100 under 500",
        "under 0 above 100", "from 10 to 20 under 5 above 7",
        "phones between 1.5 lakh and 2.5 lakh"}

PriceQueries == UnderAboveQueries \cup RangeQueries

LimitQueries ==
  { v \o " " \o n \o t :
      v \in {"top", "show", "get", "list", "first"},
      n \in { ToString(k) : k \in (0..2) \cup (99..MaxLimitInput) }
            \cup {"five", "ten", "Twenty", "500", "007"},
      t \in {""} }
  \cup {"Top 10 headphones", "show 500", "top 0", "stop 5 now",
        "get  twenty laptops", "top fifteen", "first 1000000", "top 10.5"}

\* one keyword of each rule, in rule order
KeywordSample ==
  <<"price", "review", "detail", "compare", "best", "email", "hello",
    "who made", "why">>

KeywordPairs ==
  { KeywordSample[i] \o " " \o KeywordSample[j] :
      i \in 1..Len(KeywordSample), j \in 1..Len(KeywordSample) }

\* the queries of testIntentClassifier
TestQueries ==
  {"What is the price of boat rugged v3?",
   "Show me top comments on boat type c cable",
   "What is USB-C?",
   "Best USB cables under 500 rupees",
   "Compare boat vs ambrane cables",
   "Tell me about Samsung TV",
   "How does fast charging work?",
   "Top 10 headphones",
   "Hello"}

PhraseQueries ==
  {"what is the price of cheap deal offer discount?",
   "how much is the cost of expensive mrp rate",
   "best headphones", "recommend me some good popular laptop",
   "show top trending phone case", "list best camera",
   "email me this product", "send details of boat to my email",
   "share boat rockerz via email", "mail me about sony tv",
   "forward it", "who made you", "who are you", "tell me about yourself",
   "what are you", "hi", "Hello!", "hey there", "good morning",
   "greetings...", "HI !!", "which is better, boat or jbl",
   "difference between oneplus and samsung", "specs of iqoo neo",
   "get reviews of boat airdopes", "what are the reviews for mi band",
   "top 5 reviews of jbl flip", "explain bluetooth",
   "why is usb slow?", "define hdmi", "information on realme pad"}

FallbackQueries ==
  {"usb cable", "who cares", "who likes usb", "zzz", "ok", "Who",
   "WHO knows", "whose watch", "mobile", "Samsung", "charger for laptop",
   "thanks", "premium", "12345", "₹", "  ok  "}

\* the longest repetition has MaxRepeat copies of its phrase
MaxRepeat == 5
\* the number of calls made one after another
MaxCalls == 3

RECURSIVE Repeat(_, _)
Repeat(s, n) == IF n = 0 THEN "" ELSE s \o Repeat(s, n - 1)

\* non-Latin text, control characters, pattern syntax and repetitions that
\* make the patterns backtrack
HostileQueries ==
  { "compare " \o Repeat("a and ", n) \o "b" : n \in 1..MaxRepeat }
  \cup { Repeat("best ", n) : n \in 1..MaxRepeat }
  \cup { "price of " \o Repeat("what is ", n) \o "?" : n \in 1..MaxRepeat }
  \cup {"λλλ", "größe λ phone", "ñandú é", "€ 500 €", "ß",
        "top\t5\nphones", "\fhello\f", "under\t\n500", ".*+?^${}()|[]\\",
        "(.+)", "top 5 top 500", "above under between from to",
        "between and", "under ₹", "first -5", "top 5.5.5", "price of  "}

\* one word of each category, two of them in either order, and the word
\* phone before and after the words for accessories
CategoryWords ==
  {"earbuds", "smartphone", "TV", "audio", "notebook", "ipad", "smartwatch",
   "camera"}

CategoryQueries ==
  { a \o " " \o b : a, b \in CategoryWords }
  \cup { "phone" \o sp \o w :
           sp \in {"", " ", "  "},
           w \in {"charger", "case", "cover", "holder", "stand", "mount"} }
  \cup {"Phone\tCase", "phone cases", "phones case", "phone case for phone",
        "phone case and phone cover", "smartphone case", "iphone case",
        "headphone case", "case for phone", "phone", "microphone",
        "phone casement", "a phone, a case", "tvs", "watching television"}

\* brands as whole words and inside other words, alone and with words
\* after them
BrandQueries ==
  {"best sony headphones under 5000 now", "top 5 premium phones",
   "best boats", "recommend Samsung Galaxy S24 Ultra 5G phone",
   "best samsung or oneplus phones", "show me lg", "best sony wh-1000xm4",
   "top mi band", "list best xiaomi phones", "best redmi note",
   "suggest some good hp  laptop", "best émi phone", "best sony\nheadphones",
   "top 3 JBL", "best phones by nokia", "recommend a dell_laptop",
   "best asus, acer or msi", "show popular amazonbasics",
   "best premium sony headphones", "best nokia or iqoo phone",
   "top lg and Boat speakers"}

\* captures with whitespace around them or of whitespace only, patterns
\* without a group, and leading phrases and question marks to remove
NameQueries ==
  {"price of boat ", "price of \t", "how much is   usb cable  ",
   "what is usb?", "tell me   usb cable?", "find usb", "get?",
   "what's  hdmi ?", "Show me usb", "getting usb", "what is ?", "email me",
   "mail this", "send that product details", "usb?", "find ?",
   "what is what is usb??", "reviews of  ", "compare  and b"}

IntentQueries ==
  KeywordPairs \cup TestQueries \cup PhraseQueries \cup FallbackQueries
  \cup HostileQueries \cup CategoryQueries \cup BrandQueries
  \cup NameQueries

Queries ==
  BlankQueries
  \cup { Some(q) : q \in PriceQueries \cup LimitQueries \cup IntentQueries }

(***************************************************************************)
(* The steps of a call.                                                    *)
(***************************************************************************)
Init ==
  /\ pc = "call"
  /\ query \in Queries
  /\ scores = <<>>
  /\ bestIntent = "unknown"
  /\ maxScore = 0
  /\ confidence = Num(0)
  /\ result = None
  /\ lastIndex = ZeroIndex
  /\ calls = 1
  /\ text = None
  /\ ChatIdle
  /\ BatchIdle
  /\ MongoIdle
  /\ UiIdle

\* the early return for an empty argument
EarlyReturn ==
  /\ pc = "call"
  /\ IsBlank(query)
  /\ result' = Some([intent |-> "unknown",
                     confidence |-> Num(0),
                     requiresData |-> FALSE,
                     extractedEntities |-> NoEntities,
                     reasoning |-> None])
  /\ pc' = "done"
  /\ UNCHANGED <<query, scores, bestIntent, maxScore, confidence, lastIndex,
                 calls, text>>
  /\ UNCHANGED besidesClassifier

\* the scoring loop
ScoreIntents ==
  /\ pc = "call"
  /\ ~IsBlank(query)
  /\ scores' = IntentScores(Get(query), lastIndex)
  /\ lastIndex' = IndexesAfter(Get(query), lastIndex)
  /\ bestIntent' = ScanScores(scores', 1, "unknown", 0).bestIntent
  /\ maxScore' = ScanScores(scores', 1, "unknown", 0).maxScore
  /\ pc' = "scored"
  /\ UNCHANGED <<query, confidence, result, calls, text>>
  /\ UNCHANGED besidesClassifier

\* the fallback heuristics
Fallback ==
  /\ pc = "scored"
  /\ LET f == ApplyFallback(bestIntent, maxScore, Get(query))
     IN  /\ bestIntent' = f.bestIntent
         /\ maxScore' = f.maxScore
  /\ pc' = "resolved"
  /\ UNCHANGED <<query, scores, confidence, result, lastIndex, calls, text>>
  /\ UNCHANGED besidesClassifier

\* the confidence and the minimum-confidence threshold
Threshold ==
  /\ pc = "resolved"
  /\ confidence' = Normalize(maxScore)
  /\ bestIntent' = Demote(bestIntent, maxScore, confidence')
  /\ pc' = "gated"
  /\ UNCHANGED <<query, scores, maxScore, result, lastIndex, calls, text>>
  /\ UNCHANGED besidesClassifier

\* requiresData, the entities and the returned object
Assemble ==
  /\ pc = "gated"
  /\ result' = Some([intent |-> bestIntent,
                     confidence |-> ToFixed2(confidence),
                     requiresData |-> bestIntent \in dataRequiredIntents,
                     extractedEntities |->
                       ExtractEntities(Get(query), bestIntent),
                     reasoning |->
                       Some([intent |-> bestIntent, score |-> maxScore])])
  /\ pc' = "done"
  /\ UNCHANGED <<query, scores, bestIntent, maxScore, confidence, lastIndex,
                 calls, text>>
  /\ UNCHANGED besidesClassifier

\* the classification that was returned is formatted
Format ==
  /\ pc = "done"
  /\ text = None
  /\ text' = Some(formatIntentClassification(Get(result)))
  /\ UNCHANGED <<pc, query, scores, bestIntent, maxScore, confidence, result,
                 lastIndex, calls>>
  /\ UNCHANGED besidesClassifier

\* the next call, with any argument; the patterns of the table are the
\* objects the calls before it used
NextCall ==
  /\ pc = "done"
  /\ calls < MaxCalls
  /\ calls' = calls + 1
  /\ text' = None
  /\ UNCHANGED lastIndex
  /\ pc' = "call"
  /\ query' \in Queries
  /\ scores' = <<>>
  /\ bestIntent' = "unknown"
  /\ maxScore' = 0
  /\ confidence' = Num(0)
  /\ result' = None
  /\ UNCHANGED besidesClassifier

Next ==
  \/ EarlyReturn
  \/ ScoreIntents
  \/ Fallback
  \/ Threshold
  \/ Assemble
  \/ Format
  \/ NextCall

Spec == Init /\ [][Next]_vars

(***************************************************************************)
(* What a call has returned.                                               *)
(***************************************************************************)
\* the call has returned
Returned == pc = "done"

\* the call has returned from the end of classifyIntent, past the early
\* return
Completed == pc = "done" /\ IsSome(Get(result).reasoning)

\* the largest of the scores of the rules
Highest(sc) == CHOOSE m \in 0..100 :
                 /\ \A k \in 1..Len(sc) : sc[k] <= m
                 /\ \E k \in 1..Len(sc) : sc[k] = m

\* the rules that hold the largest score
Leaders(sc) == { k \in 1..Len(sc) : sc[k] = Highest(sc) }

\* the first of the rules that hold the largest score
FirstLeader(sc) == CHOOSE k \in Leaders(sc) : \A j \in Leaders(sc) : k <= j

\* the order in which the rule table declares the intents
DeclarationOrder ==
  <<"product_price", "product_reviews", "product_info", "product_comparison",
    "product_search", "email_request", "greeting", "about_me",
    "general_question">>

(***************************************************************************)
(* C1 .. C3: the price range.                                              *)
(***************************************************************************)
\* C1: a price range that classifyIntent returns has min < max, whichever
\* phrasing (between/from, under, above) it was read from
C1_PriceRangeOrdered ==
  Completed =>
    LET pr == Get(result).extractedEntities.priceRange
    IN  IsSome(pr) => Lt(Get(pr).min, Get(pr).max)

\* the factor a price suffix stands for
SuffixMultiplier(suffix) ==
  IF suffix = "k" THEN 1000
  ELSE IF suffix \in {"lakh", "lac"} THEN 100000
  ELSE 1

\* an amount with its suffix: the number is group n, the suffix group m
SuffixedAmount(n, m) ==
  Cat(<<Opt(Lit("₹")),
        Cap(n, Cat(<<Plus(Cls("d")),
                     Opt(Cat(<<Lit("."), Plus(Cls("d"))>>))>>)),
        Star(Cls("s")), Opt(Cap(m, AnyOf(<<"lakh", "lac", "k">>)))>>)

SuffixedRange ==
  RegExp(Cat(<<AnyOf(<<"between", "from">>), Plus(Cls("s")),
               SuffixedAmount(1, 2), Plus(Cls("s")),
               AnyOf(<<"to", "and", "-">>), Plus(Cls("s")),
               SuffixedAmount(3, 4)>>), TRUE)

SuffixedUnder ==
  RegExp(Cat(<<Lit("under"), Plus(Cls("s")), SuffixedAmount(1, 2)>>), TRUE)

SuffixedAbove ==
  RegExp(Cat(<<Lit("above"), Plus(Cls("s")), SuffixedAmount(1, 2)>>), TRUE)

\* the number of group n times the factor of the suffix of group m
Priced(match, q, n, m) ==
  LET suffix == IF IsSome(Group(match, q, m))
                  THEN ToLowerCase(Get(Group(match, q, m)))
                  ELSE ""
  IN  Times(ParseFloat(Get(Group(match, q, n))), SuffixMultiplier(suffix))

\* C2: every bound of a returned price range is the number written in the
\* query, as it is when bare, times 1,000 with the suffix k, times 100,000
\* with the suffix lakh or lac, in the under, above and between/from
\* phrasings
C2_SuffixResolution ==
  Completed =>
    LET q == Get(query)
        pr == Get(result).extractedEntities.priceRange
        r == Exec(SuffixedRange, q)
        u == Exec(SuffixedUnder, q)
        a == Exec(SuffixedAbove, q)
    IN  IsSome(pr) =>
          IF r.found
            THEN /\ Get(pr).min = Priced(r, q, 1, 2)
                 /\ Get(pr).max = Priced(r, q, 3, 4)
            ELSE IF u.found
              THEN Get(pr).max = Priced(u, q, 1, 2)
              ELSE a.found => Get(pr).min = Priced(a, q, 1, 2)

\* C3: in the between/from phrasing each bound is scaled by its own suffix
\* only: "between A[sA] to B[sB]" with A*mult(sA) < B*mult(sB) yields
\* {min: A*mult(sA), max: B*mult(sB)}
C3_RangeBoundsScaledSeparately ==
  Completed =>
    LET q == Get(query)
        r == Exec(SuffixedRange, q)
    IN  (r.found /\ Lt(Priced(r, q, 1, 2), Priced(r, q, 3, 4))) =>
          Get(result).extractedEntities.priceRange
            = Some([min |-> Priced(r, q, 1, 2), max |-> Priced(r, q, 3, 4)])

(***************************************************************************)
(* C4, C5: requiresData and the empty argument.                            *)
(***************************************************************************)
\* C4: in every classification returned, the early return included,
\* requiresData is true exactly when the intent is one of product_price,
\* product_reviews, product_info, product_comparison, product_search and
\* email_request, whatever the entities
C4_RequiresDataIffDataIntent ==
  Returned =>
    (Get(result).requiresData
       <=> Get(result).intent \in
             {"product_price", "product_reviews", "product_info",
              "product_comparison", "product_search", "email_request"})

\* a call returned email_request, which requires data, with no entity but
\* the product name
C4_Witness ==
  /\ Returned
  /\ Get(result).intent = "email_request"
  /\ Get(result).requiresData
  /\ Get(result).extractedEntities.priceRange = None
  /\ Get(result).extractedEntities.limit = None

\* the argument is null, undefined, empty or made of white space only
EmptyArgument ==
  IF query = None
    THEN TRUE
    ELSE \A i \in 1..Len(Get(query)) : CharAt(Get(query), i) \in SpaceSet

\* C5: a call with an empty argument goes from its start straight to its
\* return, without scoring, fallback or entity extraction, and returns
\* intent unknown, confidence 0, requiresData false and no entities
C5_EmptyArgumentIsUnknown ==
  EmptyArgument =>
    /\ pc \in {"call", "done"}
    /\ scores = <<>>
    /\ bestIntent = "unknown"
    /\ maxScore = 0
    /\ pc = "done" =>
         result = Some([intent |-> "unknown",
                        confidence |-> Num(0),
                        requiresData |-> FALSE,
                        extractedEntities |-> <<>>,
                        reasoning |-> None])

\* a call with an argument of white space only has returned
C5_Witness ==
  /\ pc = "done"
  /\ query # None
  /\ Len(Get(query)) > 1
  /\ EmptyArgument
  /\ Get(result).intent = "unknown"

(***************************************************************************)
(* C6, C7: the scores and the choice among them.                           *)
(***************************************************************************)
\* C6: after the scoring loop, when some rule scored above 0, the intent
\* chosen is the first, in declaration order, of those with the highest
\* score
C6_FirstDeclaredWinsTie ==
  (pc = "scored" /\ Highest(scores) > 0) =>
    bestIntent = DeclarationOrder[FirstLeader(scores)]

\* the loop has ended on a tie at the top, which the earlier rule won
C6_Witness ==
  /\ pc = "scored"
  /\ Highest(scores) > 0
  /\ Cardinality(Leaders(scores)) >= 2
  /\ bestIntent = DeclarationOrder[FirstLeader(scores)]
  /\ bestIntent # "product_price"

\* the keywords of rule k that occur in q, whatever the case of q
KeywordsFound(k, q) ==
  { i \in 1..Len(INTENT_PATTERNS[k].keywords) :
      Includes(ToLowerCase(q), INTENT_PATTERNS[k].keywords[i]) }

\* the patterns of rule k that match q as it is written
PatternsFound(k, q) ==
  { i \in 1..Len(INTENT_PATTERNS[k].patterns) :
      Test(INTENT_PATTERNS[k].patterns[i], q) }

\* C7: the score of each rule is 2 times the number of its keywords that
\* occur in the query plus 5 when at least one of its patterns matches,
\* and when some score is above 0 the intent chosen holds the highest one
C7_ScoreIsKeywordsAndFlatBonus ==
  pc = "scored" =>
    /\ \A k \in 1..Len(INTENT_PATTERNS) :
         scores[k] = 2 * Cardinality(KeywordsFound(k, Get(query)))
                     + (IF PatternsFound(k, Get(query)) # {} THEN 5 ELSE 0)
    /\ Highest(scores) > 0 =>
         /\ maxScore = Highest(scores)
         /\ \E k \in Leaders(scores) : INTENT_PATTERNS[k].intent = bestIntent

\* a rule with two keywords found and two patterns matching scored 9
C7_Witness ==
  /\ pc = "scored"
  /\ \E k \in 1..Len(INTENT_PATTERNS) :
       /\ Cardinality(PatternsFound(k, Get(query))) >= 2
       /\ Cardinality(KeywordsFound(k, Get(query))) = 2
       /\ scores[k] = 9
       /\ maxScore = 9

(***************************************************************************)
(* C8: the confidence.                                                     *)
(***************************************************************************)
\* the score a returned classification reports: 0 for the early return
ReportedScore ==
  IF IsSome(Get(result).reasoning) THEN Get(Get(result).reasoning).score
                                   ELSE 0

\* C8: the confidence returned is min(score, 10) / 10 for the score
\* reported, hence within [0, 1], a multiple of 1/100, and 1 for every
\* score above 10
C8_ConfidenceIsCappedTenth ==
  Returned =>
    LET c == Get(result).confidence
    IN  /\ c = Frac(IF ReportedScore < 10 THEN ReportedScore ELSE 10, 10)
        /\ Le(Num(0), c) /\ Le(c, Num(1))
        /\ 100 % c.d = 0
        /\ ReportedScore > 10 => c = Num(1)

\* a call whose score is above 10 returned confidence 1
C8_Witness ==
  /\ Returned
  /\ ReportedScore > 10
  /\ Get(result).confidence = Num(1)

(***************************************************************************)
(* C9: the limit.                                                          *)
(***************************************************************************)
\* the count written after top, show, get, list or first, if there is one:
\* the word-numbers five, ten, twenty are 5, 10, 20
WrittenCount(q) ==
  LET m == Exec(LimitPattern, q)
      w == ToLowerCase(Get(Group(m, q, 1)))
  IN  IF ~m.found THEN None
      ELSE IF w = "five" THEN Some(5)
      ELSE IF w = "ten" THEN Some(10)
      ELSE IF w = "twenty" THEN Some(20)
      ELSE Some(DigitsValue(w))

\* C9: a limit returned is an integer from 1 to 100; a count written in
\* the query that is at most 0 or above 100 gives no limit, and any other
\* written count, in digits or as five, ten or twenty, is the limit
C9_LimitWithinRange ==
  Completed =>
    LET lim == Get(result).extractedEntities.limit
        n == WrittenCount(Get(query))
    IN  /\ IsSome(lim) =>
             /\ ~IsNaN(Get(lim)) /\ Get(lim).d = 1
             /\ 1 <= Get(lim).n /\ Get(lim).n <= 100
        /\ IsSome(n) =>
             IF Get(n) <= 0 \/ Get(n) > 100
               THEN lim = None
               ELSE lim = Some(Num(Get(n)))

\* a call with a count above 100 returned no limit
C9_Witness ==
  /\ Completed
  /\ IsSome(WrittenCount(Get(query)))
  /\ Get(WrittenCount(Get(query))) > 100
  /\ Get(result).extractedEntities.limit = None

(***************************************************************************)
(* C10: the fallbacks.                                                     *)
(***************************************************************************)
\* q begins with what, why, how, when, where or who, in any case
BeginsWithInterrogative(q) ==
  \E w \in {"what", "why", "how", "when", "where", "who"} :
    /\ Len(q) >= Len(w)
    /\ ToLowerCase(SubSeq(q, 1, Len(w))) = w

\* C10: when some rule scored above 0 the score reported is the highest of
\* the scores; when none did, a query with a product keyword is
\* product_info with score 3, confidence 0.3 and requiresData true, any
\* other query that begins with an interrogative is general_question with
\* score 2 and confidence 0.2, and the rest is unknown with score 0
C10_FallbackOrder ==
  Completed =>
    LET out == Get(result)
        q == Get(query)
    IN  IF Highest(scores) > 0
          THEN /\ ReportedScore = Highest(scores)
               /\ out.intent = DeclarationOrder[FirstLeader(scores)]
          ELSE IF isProductRelated(q)
            THEN /\ out.intent = "product_info"
                 /\ ReportedScore = 3
                 /\ out.confidence = Frac(3, 10)
                 /\ out.requiresData
            ELSE IF BeginsWithInterrogative(q)
              THEN /\ out.intent = "general_question"
                   /\ ReportedScore = 2
                   /\ out.confidence = Frac(2, 10)
              ELSE /\ out.intent = "unknown"
                   /\ ReportedScore = 0

\* no rule scored, the query has a product keyword and begins with an
\* interrogative, and the call returned product_info
C10_Witness ==
  /\ Completed
  /\ Highest(scores) = 0
  /\ isProductRelated(Get(query))
  /\ BeginsWithInterrogative(Get(query))
  /\ Get(result).intent = "product_info"
  /\ ReportedScore = 3

(***************************************************************************)
(* C11: the minimum-confidence gate.                                       *)
(***************************************************************************)
\* C11: the gate turns an intent other than greeting and about_me whose
\* confidence is below 0.2 into general_question when the score is above 0
\* and into unknown otherwise, leaves every other intent as it is (so
\* "Hello" is returned as a greeting that requires no data), and the
\* confidence returned is the one computed from the score
C11_MinimumConfidenceGate ==
  [][/\ pc = "resolved" =>
          /\ confidence' = Frac(IF maxScore < 10 THEN maxScore ELSE 10, 10)
          /\ bestIntent' =
               IF /\ Lt(confidence', Frac(2, 10))
                  /\ bestIntent \notin {"greeting", "about_me"}
                 THEN IF maxScore > 0 THEN "general_question" ELSE "unknown"
                 ELSE bestIntent
     /\ pc = "gated" =>
          /\ Get(result').intent = bestIntent
          /\ Get(result').confidence = confidence
          /\ query = Some("Hello") =>
               /\ Get(result').intent = "greeting"
               /\ ~Get(result').requiresData]_vars

\* the gate has met a confidence below 0.2 and left the intent unknown
C11_Witness ==
  /\ pc = "gated"
  /\ Lt(confidence, Frac(2, 10))
  /\ maxScore = 0
  /\ bestIntent = "unknown"

(***************************************************************************)
(* C12: every call returns a well-formed classification.                   *)
(***************************************************************************)
\* a step of the call that is under way
CallStep == EarlyReturn \/ ScoreIntents \/ Fallback \/ Threshold \/ Assemble

\* the steps of a call, once it is made, are taken: the function is
\* synchronous and runs to its end without waiting for anything.  This is
\* weak fairness of CallStep, WF_vars(CallStep), with ENABLED <<CallStep>>_vars
\* written out: a step of the call can be taken exactly while the call has
\* not returned, because EarlyReturn and ScoreIntents split pc = "call" on
\* IsBlank and every later step is guarded by its stage alone
FairSpec ==
  Spec /\ ([]<>(pc = "done") \/ []<><<CallStep>>_vars)

\* a is a number that is not NaN
IsNumber(a) == DOMAIN a = {"nan", "n", "d"} /\ ~a.nan /\ a.d > 0

\* the entities are those of the IntentClassification type, and a count or
\* an amount that did not make a valid entity is left out
WellFormedEntities(e) ==
  IF e = <<>>
    THEN TRUE
    ELSE /\ DOMAIN e = {"productName", "productCategory", "limit",
                        "priceRange"}
         /\ \A f \in DOMAIN e : Len(e[f]) <= 1
         /\ IsSome(e.limit) =>
              IsNumber(Get(e.limit)) /\ Gt(Get(e.limit), Num(0))
         /\ IsSome(e.priceRange) =>
              /\ IsNumber(Get(e.priceRange).min)
              /\ IsNumber(Get(e.priceRange).max)
              /\ Ge(Get(e.priceRange).min, Num(0))
              /\ Gt(Get(e.priceRange).max, Num(0))

WellFormed(r) ==
  /\ DOMAIN r = {"intent", "confidence", "requiresData", "extractedEntities",
                 "reasoning"}
  /\ r.intent \in QueryIntent
  /\ IsNumber(r.confidence)
  /\ r.requiresData \in BOOLEAN
  /\ WellFormedEntities(r.extractedEntities)

\* C12: every call of classifyIntent, whatever its argument, returns, and
\* what it returns is a well-formed classification in which an entity that
\* could not be read is left out
C12_Total ==
  /\ [](Returned => WellFormed(Get(result)))
  /\ (pc = "call") ~> Returned

\* the call with the longest repetition has returned, as has been read
\* without a price range
C12_Witness ==
  /\ Returned
  /\ query = Some("compare " \o Repeat("a and ", MaxRepeat) \o "b")
  /\ Get(result).intent = "product_comparison"
  /\ Get(result).extractedEntities.priceRange = None


(***************************************************************************)
(* C13                                                                     *)
(***************************************************************************)
\* the object returned for intent best, score max and confidence conf
Assembled(q, best, max, conf) ==
  Some([intent |-> best,
        confidence |-> ToFixed2(conf),
        requiresData |-> best \in dataRequiredIntents,
        extractedEntities |-> ExtractEntities(q, best),
        reasoning |-> Some([intent |-> best, score |-> max])])

Gated(q, f) ==
  Assembled(q, Demote(f.bestIntent, f.maxScore, Normalize(f.maxScore)),
            f.maxScore, Normalize(f.maxScore))

Scanned(q, s) == Gated(q, ApplyFallback(s.bestIntent, s.maxScore, q))

\* what classifyIntent returns for argument q when no call was made before
Outcome(q) ==
  IF IsBlank(q)
    THEN Some([intent |-> "unknown",
               confidence |-> Num(0),
               requiresData |-> FALSE,
               extractedEntities |-> NoEntities,
               reasoning |-> None])
    ELSE Scanned(Get(q), ScanScores(IntentScores(Get(q), ZeroIndex), 1,
                                    "unknown", 0))

\* C13: no call changes the patterns of the rule table, and whatever calls
\* were made before it, and in whatever order, a call returns what the first
\* call of all returns for the same argument
C13_NoHiddenState ==
  /\ lastIndex = ZeroIndex
  /\ Returned => result = Outcome(query)

\* the last of MaxCalls calls has returned for an argument that a pattern
\* of the table matches
C13_Witness ==
  /\ Returned
  /\ calls = MaxCalls
  /\ query = Some("What is the price of boat rugged v3?")
  /\ Get(result).intent = "product_price"


(***************************************************************************)
(* C14                                                                     *)
(***************************************************************************)
\* the amount written in group n of a match
Written(match, q, n) == ParseFloat(Get(Group(match, q, n)))

\* x is the amount a, as it is or scaled by the factor of a suffix
IsAmount(x, a) == \E k \in {1, 1000, 100000} : Over(x, k) = a

\* the amount in group 1 of a match is followed by no suffix letter
Bare(match, q) == ~Includes(ToLowerCase(Whole(match, q)), "k")

\* the price range pr comes from the phrasing that matched first: between or
\* from, then under, then above
Decided(pr, r, u, a, q) ==
  IF r.found
    THEN IsSome(pr) =>
           /\ IsAmount(Get(pr).min, Written(r, q, 1))
           /\ IsAmount(Get(pr).max, Written(r, q, 2))
    ELSE IF u.found
      THEN /\ IsSome(pr) <=> Gt(Written(u, q, 1), Num(0))
           /\ IsSome(pr) =>
                /\ Get(pr).min = Num(0)
                /\ IsAmount(Get(pr).max, Written(u, q, 1))
                /\ Bare(u, q) => Get(pr).max = Written(u, q, 1)
      ELSE IF a.found
        THEN /\ IsSome(pr)
             /\ Get(pr).max = Num(AboveMax)
             /\ IsAmount(Get(pr).min, Written(a, q, 1))
             /\ Bare(a, q) => Get(pr).min = Written(a, q, 1)
        ELSE pr = None

\* C14: the price-range phrasings are tried in the order between/from,
\* under, above and the first that matches decides the result: 'under A'
\* gives min 0 and max A, 'above A' gives min A and max 999999, and a query
\* with an under and an above phrase and no between/from phrase gives the
\* under range
C14_PhrasingOrder ==
  Completed =>
    Decided(Get(result).extractedEntities.priceRange,
            Exec(RangePattern, Get(query)), Exec(UnderPattern, Get(query)),
            Exec(AbovePattern, Get(query)), Get(query))

\* a query with the above phrase before the under phrase has returned with
\* the under range
C14_Witness ==
  /\ Completed
  /\ query = Some("above 100 under 500")
  /\ Get(result).extractedEntities.priceRange =
       Some([min |-> Num(0), max |-> Num(500)])


(***************************************************************************)
(* C15                                                                     *)
(***************************************************************************)
\* the category tags in their order of priority
PriorityOrder ==
  <<"headphone", "smartphone", "tv", "speaker", "laptop", "tablet", "watch",
    "camera">>

\* the positions, in the priority order, of the patterns that match q
Matching(q) ==
  { k \in 1..Len(categoryPatterns) : Test(categoryPatterns[k].regex, q) }

\* the first position of a non-empty set of positions
First(ks) == CHOOSE k \in ks : \A j \in ks : k <= j

FirstTag(c, ks) ==
  /\ c \in {None} \cup { Some(PriorityOrder[k]) : k \in 1..Len(PriorityOrder) }
  /\ c = IF ks = {} THEN None ELSE Some(PriorityOrder[First(ks)])

\* C15: the category returned is the tag of the first pattern that matches,
\* in the order headphone, smartphone, tv, speaker, laptop, tablet, watch,
\* camera, wherever the words stand in the query, and so one of these eight
\* tags or absent
C15_CategoryPriority ==
  Completed =>
    FirstTag(Get(result).extractedEntities.productCategory,
             Matching(Get(query)))

\* a query that names a camera before earbuds has returned with the
\* category headphone
C15_Witness ==
  /\ Completed
  /\ query = Some("camera earbuds")
  /\ Get(result).extractedEntities.productCategory = Some("headphone")


(***************************************************************************)
(* C16                                                                     *)
(***************************************************************************)
Accessories == {"charger", "case", "cover", "holder", "stand", "mount"}

\* w is written in s from position i
WrittenAt(s, i, w) ==
  i >= 1 /\ i + Len(w) - 1 <= Len(s) /\ SubSeq(s, i, i + Len(w) - 1) = w

\* the first position from i on that holds no whitespace
RECURSIVE AfterSpaces(_, _)
AfterSpaces(s, i) ==
  IF i <= Len(s) /\ CharAt(s, i) \in SpaceSet THEN AfterSpaces(s, i + 1) ELSE i

\* the positions of s where the word phone starts
PhoneWords(s) ==
  { i \in 1..Len(s) : WrittenAt(s, i, "phone") /\ ~IsWordAt(s, i - 1) }

\* the word phone at position i is followed by the word for an accessory
AccessoryFollows(s, i) ==
  \E w \in Accessories : WrittenAt(s, AfterSpaces(s, i + 5), w)

\* q mentions phones only in accessory phrases
AccessoryPhrase(s) ==
  /\ PhoneWords(s) # {}
  /\ \A i \in PhoneWords(s) : AccessoryFollows(s, i)
  /\ ~Includes(s, "smartphone")

\* C16: a query in which the word phone is followed, after optional
\* whitespace, by charger, case, cover, holder, stand or mount, and that
\* mentions no phone or smartphone otherwise, is not given the category
\* smartphone
C16_AccessoryIsNotSmartphone ==
  (Completed /\ AccessoryPhrase(ToLowerCase(Get(query)))) =>
    Get(result).extractedEntities.productCategory # Some("smartphone")

\* 'phone case', which names no other category, has returned without a
\* category
C16_Witness ==
  /\ Completed
  /\ query = Some("phone case")
  /\ AccessoryPhrase(ToLowerCase(Get(query)))
  /\ Get(result).extractedEntities.productCategory = None


(***************************************************************************)
(* C17                                                                     *)
(***************************************************************************)
\* w is written in s from position i as a whole word
WholeWordAt(s, i, w) ==
  WrittenAt(s, i, w) /\ ~IsWordAt(s, i - 1) /\ ~IsWordAt(s, i + Len(w))

\* the brands of the list that s holds as whole words
BrandWords(s) ==
  { k \in 1..Len(Brands) : \E i \in 1..Len(s) : WholeWordAt(s, i, Brands[k]) }

\* the first position from i on that holds no word character
RECURSIVE AfterWord(_, _)
AfterWord(s, i) == IF IsWordAt(s, i) THEN AfterWord(s, i + 1) ELSE i

\* from position i to its end, s is at most n words, each after whitespace
RECURSIVE FollowingWords(_, _, _)
FollowingWords(s, i, n) ==
  IF i > Len(s)
    THEN TRUE
    ELSE /\ n > 0
         /\ AfterSpaces(s, i) > i
         /\ AfterWord(s, AfterSpaces(s, i)) > AfterSpaces(s, i)
         /\ FollowingWords(s, AfterWord(s, AfterSpaces(s, i)), n - 1)

\* name is a brand that s holds as a whole word, with at most 3 words after
\* it, as s holds them
BrandAndWords(name, s) ==
  \E k \in BrandWords(s) : \E i \in 1..Len(s) :
    /\ WholeWordAt(s, i, Brands[k])
    /\ WrittenAt(s, i, name)
    /\ ~IsWordAt(s, i + Len(name))
    /\ FollowingWords(name, Len(Brands[k]) + 1, 3)

BrandOrNothing(name, category, q) ==
  /\ IF BrandWords(ToLowerCase(q)) = {}
       THEN name = None
       ELSE IsSome(name) /\ BrandAndWords(ToLowerCase(Get(name)),
                                          ToLowerCase(q))
  /\ q \in {"best headphones", "Top 10 headphones"} =>
       name = None /\ category = Some("headphone")

\* C17: for the intent product_search a product name is returned only when
\* the query holds a brand of the list as a whole word, and is then that
\* brand with at most 3 words after it; without a brand there is none,
\* whatever the patterns of the intent capture: 'best headphones' and
\* 'Top 10 headphones' have a category and no product name
C17_SearchNameIsBrand ==
  (Completed /\ Get(result).intent = "product_search") =>
    BrandOrNothing(Get(result).extractedEntities.productName,
                   Get(result).extractedEntities.productCategory, Get(query))

\* a query with five words after the brand has returned with the brand and
\* three of them
C17_Witness ==
  /\ Completed
  /\ query = Some("recommend Samsung Galaxy S24 Ultra 5G phone")
  /\ Get(result).intent = "product_search"
  /\ Get(result).extractedEntities.productName =
       Some("Samsung Galaxy S24 Ultra")


(***************************************************************************)
(* C18                                                                     *)
(***************************************************************************)
\* match[1] of each pattern, in the order of declaration
FirstCaptures(patterns, q) ==
  Tuple([j \in 1..Len(patterns) |-> Group(Exec(patterns[j], q), q, 1)])

\* the patterns whose first capture group is not empty
Qualifying(caps) ==
  { j \in 1..Len(caps) : IsSome(caps[j]) /\ Get(caps[j]) # "" }

LeadingPhrases == {"what is", "what's", "show me", "tell me", "get", "find"}

\* the leading phrases that q starts with, followed by whitespace
Leading(q) ==
  { p \in LeadingPhrases :
      /\ WrittenAt(ToLowerCase(q), 1, p)
      /\ AfterSpaces(q, Len(p) + 1) > Len(p) + 1 }

\* q without one leading phrase and the whitespace after it
WithoutLeading(q) ==
  IF Leading(q) = {}
    THEN q
    ELSE SubSeq(q, AfterSpaces(q, Len(CHOOSE p \in Leading(q) : TRUE) + 1),
                Len(q))

\* q without a question mark at its end
WithoutQuestionMark(q) ==
  IF Len(q) > 0 /\ CharAt(q, Len(q)) = "?" THEN SubSeq(q, 1, Len(q) - 1) ELSE q

\* name is the capture of the first qualifying pattern, and without one the
\* cleaned query or nothing; whitespace around either is not compared
NameAsDeclared(name, caps, cleaned) ==
  IF Qualifying(caps) # {}
    THEN /\ IsSome(name)
         /\ Get(name) # ""
         /\ Trim(Get(name)) = Trim(Get(caps[First(Qualifying(caps))]))
    ELSE IF Trim(cleaned) = ""
      THEN name = None
      ELSE IsSome(name) /\ Trim(Get(name)) = Trim(cleaned)

\* C18: for an intent other than product_search, the product name is the
\* first capture group of the first pattern declared for the intent whose
\* first capture group is not empty, a matching pattern without a group
\* being passed over; when no pattern qualifies it is the query without one
\* leading phrase (what is, what's, show me, tell me, get, find) and
\* without a question mark at its end, and absent when nothing is left
C18_NameIsFirstCapture ==
  (/\ Completed
   /\ Get(result).intent # "product_search"
   /\ IsSome(ConfigOf(Get(result).intent))) =>
    NameAsDeclared(Get(result).extractedEntities.productName,
                   FirstCaptures(Get(ConfigOf(Get(result).intent)).patterns,
                                 Get(query)),
                   WithoutQuestionMark(WithoutLeading(Get(query))))


(***************************************************************************)
(* C19                                                                     *)
(***************************************************************************)
\* the place of an intent in the order of declaration
PlaceOf(intent) ==
  CHOOSE k \in 1..Len(DeclarationOrder) : DeclarationOrder[k] = intent

\* C19: 'What is the price of boat rugged v3?' is classified product_price,
\* which shares the highest score, 7, with general_question and is declared
\* before it; data is required and the product name contains
\* 'boat rugged v3'
C19_BoatRuggedPrice ==
  (Completed /\ query = Some("What is the price of boat rugged v3?")) =>
    /\ scores[PlaceOf("product_price")] = 7
    /\ scores[PlaceOf("general_question")] = 7
    /\ \A k \in 1..Len(scores) : scores[k] <= 7
    /\ Get(result).intent = "product_price"
    /\ Get(result).requiresData
    /\ IsSome(Get(result).extractedEntities.productName)
    /\ Includes(ToLowerCase(Get(Get(result).extractedEntities.productName)),
                "boat rugged v3")

\* the call for this query has returned with the question mark in the name
C19_Witness ==
  /\ Completed
  /\ query = Some("What is the price of boat rugged v3?")
  /\ Get(result).extractedEntities.productName = Some("boat rugged v3?")
  /\ calls = 1


(***************************************************************************)
(* C20                                                                     *)
(***************************************************************************)
\* the classification of the call has been formatted
Formatted == pc = "done" /\ IsSome(text)

\* the two lines every rendering starts with
HeadLines(r) ==
  "Intent: " \o r.intent \o " ("
  \o IntToString(MathRound(Times(r.confidence, 100))) \o "% confident)\n"
  \o "Requires Data: " \o (IF r.requiresData THEN "Yes" ELSE "No") \o "\n"

\* the line of a product name, of a limit and of a price range, empty when
\* the field is not populated
NameLine(e) ==
  IF Truthy(EntityOf(e, "productName"))
    THEN "Product: \"" \o Get(e.productName) \o "\"\n"
    ELSE ""

LimitLine(e) ==
  IF IsSome(EntityOf(e, "limit"))
    THEN "Limit: " \o NumberToString(Get(e.limit)) \o "\n"
    ELSE ""

RangeLine(e) ==
  IF IsSome(EntityOf(e, "priceRange"))
    THEN "Price Range: ₹" \o NumberToString(Get(e.priceRange).min)
         \o " - ₹" \o NumberToString(Get(e.priceRange).max) \o "\n"
    ELSE ""

\* line is one line, and it holds tag
LineWith(line, tag) ==
  /\ Len(line) > 0
  /\ \A i \in 1..Len(line) : CharAt(line, i) = "\n" <=> i = Len(line)
  /\ Includes(line, tag)

\* t is the lines before, a line for the category when there is one, and
\* the lines after
Rendered(t, before, category, after) ==
  /\ WrittenAt(t, 1, before)
  /\ Len(t) >= Len(before) + Len(after)
  /\ SubSeq(t, Len(t) - Len(after) + 1, Len(t)) = after
  /\ IF IsSome(category)
       THEN LineWith(SubSeq(t, Len(before) + 1, Len(t) - Len(after)),
                     Get(category))
       ELSE Len(t) = Len(before) + Len(after)

\* C20: the text made by formatIntentClassification has a line with the
\* intent and the confidence in per cent, a line that tells whether data is
\* required, and a line of its own for each populated entity: the product
\* name, the product category, the limit and the price range, whose two
\* bounds are written after the rupee sign
C20_RenderingListsEveryEntity ==
  Formatted =>
    Rendered(Get(text),
             HeadLines(Get(result))
               \o NameLine(Get(result).extractedEntities),
             EntityOf(Get(result).extractedEntities, "productCategory"),
             LimitLine(Get(result).extractedEntities)
               \o RangeLine(Get(result).extractedEntities))


(***************************************************************************)
(* C21                                                                     *)
(***************************************************************************)
\* C21: the minimum-confidence threshold never changes an intent whose
\* score is positive: every positive score is at least 2, so a call with a
\* non-empty argument returns unknown exactly when score and confidence
\* are 0 and every other intent with a confidence of at least 0.2; a score
\* of 2, confidence 0.2, keeps its intent, as
\* 'Best USB cables under 500 rupees' stays product_search
C21_GateKeepsPositiveScores ==
  [][/\ pc = "resolved" =>
          /\ maxScore = 0 \/ maxScore >= 2
          /\ maxScore > 0 => bestIntent' = bestIntent
          /\ maxScore = 2 => confidence' = Frac(2, 10)
     /\ pc = "gated" =>
          /\ Get(result').intent = "unknown" <=>
               (maxScore = 0 /\ Get(result').confidence = Num(0))
          /\ Get(result').intent # "unknown" =>
               Ge(Get(result').confidence, Frac(2, 10))
          /\ query = Some("Best USB cables under 500 rupees") =>
               Get(result').intent = "product_search"]_vars

\* 'Best USB cables under 500 rupees' has returned as product_search with
\* score 2 and confidence 0.2
C21_Witness ==
  /\ Completed
  /\ query = Some("Best USB cables under 500 rupees")
  /\ maxScore = 2
  /\ Get(result).confidence = Frac(2, 10)
  /\ Get(result).intent = "product_search"


(***************************************************************************)
(* C22                                                                     *)
(***************************************************************************)
\* the bounds of a between/from match are rejected: one is NaN or negative,
\* or the first is not below the second
Rejected(min, max) ==
  \/ IsNaN(min) \/ IsNaN(max)
  \/ Lt(min, Num(0)) \/ Lt(max, Num(0))
  \/ ~Lt(min, max)

\* the between/from phrasing matches q and its bounds are rejected
RejectedRange(r, q) ==
  IF r.found
    THEN Rejected(parsePrice(WithK(r, q, 1)), parsePrice(WithK(r, q, 2)))
    ELSE FALSE

\* C22: when the between/from phrasing matches and its bounds are rejected
\* (the first not below the second, or one of them NaN or negative), no
\* price range is returned for the query: the under and above phrasings
\* are not tried, even when the query holds a valid one
C22_RejectedRangeIsFinal ==
  (Completed /\ RejectedRange(Exec(RangePattern, Get(query)), Get(query))) =>
    Get(result).extractedEntities.priceRange = None

\* a query with rejected between bounds and a valid under phrase has
\* returned without a price range
C22_Witness ==
  /\ Completed
  /\ query = Some("between 20 and 10 under 500")
  /\ Test(UnderPattern, Get(query))
  /\ Get(result).extractedEntities.priceRange = None


(***************************************************************************)
(* C23                                                                     *)
(***************************************************************************)
\* C23: a product name that classifyIntent returns is a string that is not
\* empty and has no whitespace at its start or end; a capture of whitespace
\* only never gives the empty string as product name
C23_NameIsNotEmpty ==
  (Completed /\ IsSome(Get(result).extractedEntities.productName)) =>
    /\ Get(Get(result).extractedEntities.productName) # ""
    /\ Trim(Get(Get(result).extractedEntities.productName))
         = Get(Get(result).extractedEntities.productName)


(***************************************************************************)
(* C24                                                                     *)
(***************************************************************************)
\* name starts with the brand, whatever the case of its letters
StartsWithBrand(name, brand) ==
  IsSome(name) /\ WrittenAt(ToLowerCase(Get(name)), 1, brand)

\* C24: for the intent product_search and a query with several brands of
\* the list, the product name starts with the brand that stands first in
\* the list among those the query holds as whole words, wherever it stands
\* in the query; a brand that the query holds only inside a longer word is
\* passed over and the next brand of the list is tried
C24_FirstListedBrand ==
  (/\ Completed
   /\ Get(result).intent = "product_search"
   /\ BrandWords(ToLowerCase(Get(query))) # {}) =>
    StartsWithBrand(Get(result).extractedEntities.productName,
                    Brands[First(BrandWords(ToLowerCase(Get(query))))])

\* a query that holds mi inside premium, and names samsung before oneplus,
\* has returned with the brand listed first
C24_Witness ==
  /\ Completed
  /\ \/ /\ query = Some("best samsung or oneplus phones")
        /\ Get(result).extractedEntities.productName = Some("oneplus phones")
     \/ /\ query = Some("best premium sony headphones")
        /\ Get(result).extractedEntities.productName
             = Some("sony headphones")
  /\ Get(result).intent = "product_search"


(***************************************************************************)
(* The chat endpoint, app/api/chat/route.ts: strings and JSON.             *)
(***************************************************************************)
\* String.prototype.startsWith(w, i - 1)
StartsWithAt(s, w, i) ==
  IF i + Len(w) - 1 > Len(s) THEN FALSE ELSE SubSeq(s, i, i + Len(w) - 1) = w

\* String.prototype.startsWith
StartsWith(s, w) == StartsWithAt(s, w, 1)

\* String.prototype.slice(from, to) and substring(from, to), for indexes
\* that are not negative and from <= to
Slice(s, from, to) == SubSeq(s, Min(from, Len(s)) + 1, Min(to, Len(s)))

RECURSIVE ReplaceAllFrom(_, _, _, _)
\* s.replace(/w/g, by) from position i on, for a literal w
ReplaceAllFrom(s, i, w, by) ==
  IF i > Len(s) THEN ""
  ELSE IF StartsWithAt(s, w, i)
    THEN by \o ReplaceAllFrom(s, i + Len(w), w, by)
    ELSE CharAt(s, i) \o ReplaceAllFrom(s, i + 1, w, by)

\* the bullet U+2022 of cleanMarkdownFormatting, one UTF-16 code unit; the
\* character set of this module has no U+2022, U+25CF stands for it
Bullet == "●"

\* the characters after which /^/m matches
LineTerminators == {"\n", "\r"}

RECURSIVE ReplaceLineStarts(_, _)
\* s.replace(/^\* /gm, "<bullet> ") from position i on
ReplaceLineStarts(s, i) ==
  IF i > Len(s) THEN ""
  ELSE IF StartsWithAt(s, "* ", i)
          /\ (IF i = 1 THEN TRUE ELSE CharAt(s, i - 1) \in LineTerminators)
    THEN Bullet \o " " \o ReplaceLineStarts(s, i + 2)
    ELSE CharAt(s, i) \o ReplaceLineStarts(s, i + 1)

\* cleanMarkdownFormatting of lib/gemini.ts
cleanMarkdownFormatting(t) ==
  ReplaceAllFrom(ReplaceLineStarts(ReplaceAllFrom(t, 1, "**", ""), 1),
                 1, "*", "")

\* the least position of a set of positions, or none when it is empty
Least(positions, none) ==
  IF positions = {} THEN none
  ELSE CHOOSE j \in positions : \A h \in positions : j <= h

\* the first position from i on where s has one of chars, Len(s) + 1 when
\* it has none
FirstOf(s, i, chars) ==
  Least({ j \in i..Len(s) : CharAt(s, j) \in chars }, Len(s) + 1)

\* the characters JSON.stringify writes with a backslash
EscapedChars == {"\"", "\\", "\n"}

RECURSIVE Quoted(_, _)
RECURSIVE QuotedUpTo(_, _, _)
\* the characters of s from position i on as JSON.stringify writes them
\* inside a string
Quoted(s, i) == QuotedUpTo(s, i, FirstOf(s, i, EscapedChars))

\* the same, the next character to escape being at position j
QuotedUpTo(s, i, j) ==
  IF j > Len(s) THEN SubSeq(s, i, Len(s))
  ELSE SubSeq(s, i, j - 1)
       \o (IF CharAt(s, j) = "\"" THEN "\\\""
           ELSE IF CharAt(s, j) = "\\" THEN "\\\\"
           ELSE "\\n")
       \o Quoted(s, j + 1)

\* the values of the JSON texts of this endpoint: strings, booleans, null
JSONString(s) == [kind |-> "string", v |-> s]
JSONBoolean(b) == [kind |-> "boolean", v |-> IF b THEN "true" ELSE "false"]
JSONNull == [kind |-> "null", v |-> "null"]

\* JSON.stringify of such a value
JSONValue(value) ==
  IF value.kind = "string" THEN "\"" \o Quoted(value.v, 1) \o "\""
  ELSE value.v

RECURSIVE JSONMembers(_, _)
JSONMembers(members, k) ==
  IF k > Len(members) THEN ""
  ELSE (IF k = 1 THEN "" ELSE ",")
       \o "\"" \o Quoted(members[k][1], 1) \o "\":" \o JSONValue(members[k][2])
       \o JSONMembers(members, k + 1)

\* JSON.stringify of an object, given as its members <<key, value>> in
\* insertion order
JSONStringify(members) == "{" \o JSONMembers(members, 1) \o "}"

\* a position where the parser of JSON.parse gave up
SyntaxError == [ok |-> FALSE, value |-> JSONNull, next |-> 0]

Parsed(v, i) == [ok |-> TRUE, value |-> v, next |-> i]

RECURSIVE SkipWhitespace(_, _)
SkipWhitespace(s, i) ==
  IF i > Len(s) THEN i
  ELSE IF CharAt(s, i) \in {" ", "\n", "\r", "\t"} THEN SkipWhitespace(s, i + 1)
  ELSE i

\* the characters that end a run of plain characters in a JSON string
SpecialChars == {"\"", "\\", "\n", "\r", "\t"}

RECURSIVE ParseChars(_, _, _)
RECURSIVE ParseCharsUpTo(_, _, _, _)
\* the rest of a JSON string whose opening quote is before position i
ParseChars(s, i, acc) == ParseCharsUpTo(s, i, FirstOf(s, i, SpecialChars), acc)

\* the same, the next character that is not plain being at position j
ParseCharsUpTo(s, i, j, acc) ==
  IF j > Len(s) THEN SyntaxError
  ELSE IF CharAt(s, j) = "\""
    THEN Parsed(JSONString(acc \o SubSeq(s, i, j - 1)), j + 1)
  ELSE IF CharAt(s, j) # "\\" THEN SyntaxError
  ELSE IF j + 1 > Len(s) THEN SyntaxError
  ELSE IF CharAt(s, j + 1) \in {"\"", "\\", "/"}
    THEN ParseChars(s, j + 2, acc \o SubSeq(s, i, j - 1) \o CharAt(s, j + 1))
  ELSE IF CharAt(s, j + 1) = "n"
    THEN ParseChars(s, j + 2, acc \o SubSeq(s, i, j - 1) \o "\n")
  ELSE IF CharAt(s, j + 1) = "r"
    THEN ParseChars(s, j + 2, acc \o SubSeq(s, i, j - 1) \o "\r")
  ELSE IF CharAt(s, j + 1) = "t"
    THEN ParseChars(s, j + 2, acc \o SubSeq(s, i, j - 1) \o "\t")
  ELSE SyntaxError

\* a JSON string, true, false or null at position i
ParseValue(s, i) ==
  IF StartsWithAt(s, "\"", i) THEN ParseChars(s, i + 1, "")
  ELSE IF StartsWithAt(s, "true", i) THEN Parsed(JSONBoolean(TRUE), i + 4)
  ELSE IF StartsWithAt(s, "false", i) THEN Parsed(JSONBoolean(FALSE), i + 5)
  ELSE IF StartsWithAt(s, "null", i) THEN Parsed(JSONNull, i + 4)
  ELSE SyntaxError

\* the member whose key is parsed as key, followed by what is after it
MemberAfterKey(s, key, colon) ==
  IF ~key.ok THEN SyntaxError
  ELSE IF ~StartsWithAt(s, ":", colon) THEN SyntaxError
  ELSE ParseValue(s, SkipWhitespace(s, colon + 1))

RECURSIVE ParseMembers(_, _, _)

\* after a member: a comma and the next member, or the closing brace
ParseMemberEnd(s, key, v, acc) ==
  IF ~v.ok THEN SyntaxError
  ELSE IF StartsWithAt(s, ",", SkipWhitespace(s, v.next))
    THEN ParseMembers(s, SkipWhitespace(s, SkipWhitespace(s, v.next) + 1),
                      Append(acc, <<key.value.v, v.value>>))
  ELSE IF StartsWithAt(s, "}", SkipWhitespace(s, v.next))
    THEN Parsed(Append(acc, <<key.value.v, v.value>>),
                SkipWhitespace(s, v.next) + 1)
  ELSE SyntaxError

ParseMemberValue(s, key, acc) ==
  IF ~key.ok THEN SyntaxError
  ELSE ParseMemberEnd(s, key,
                      MemberAfterKey(s, key, SkipWhitespace(s, key.next)),
                      acc)

\* the members of an object from position i on, a key is expected there
ParseMembers(s, i, acc) ==
  IF ~StartsWithAt(s, "\"", i) THEN SyntaxError
  ELSE ParseMemberValue(s, ParseChars(s, i + 1, ""), acc)

\* the object at the start of s, with what is after it
ParseObject(s, i) ==
  IF ~StartsWithAt(s, "{", i) THEN SyntaxError
  ELSE IF StartsWithAt(s, "}", SkipWhitespace(s, i + 1))
    THEN Parsed(<<>>, SkipWhitespace(s, i + 1) + 1)
  ELSE ParseMembers(s, SkipWhitespace(s, i + 1), <<>>)

\* nothing but whitespace may follow the value
WholeText(s, v) ==
  IF ~v.ok THEN None
  ELSE IF SkipWhitespace(s, v.next) <= Len(s) THEN None
  ELSE Some(v.value)

\* JSON.parse of a text that holds an object of strings, booleans and
\* nulls: its members, or None where JSON.parse throws a SyntaxError
JSONParse(s) == WholeText(s, ParseObject(s, SkipWhitespace(s, 1)))


(***************************************************************************)
(* The chat endpoint: what the product service and the sentiment analyzer  *)
(* give back, and the text enhanceMessageWithProductData makes of it.      *)
(***************************************************************************)
\* STREAMING_CONFIG.CHARS_PER_CHUNK
CHARS_PER_CHUNK == 3

\* a call of the service gives back at most MaxItems items
MaxItems == 4

\* the instruction appended to a message that needs no data
ConciseInstruction ==
  "\n\nIMPORTANT: Always give short and clear responses. Avoid lengthy explanations unless specifically asked. Be concise and to the point."

\* the instruction appended after the product data
DataInstruction ==
  "\n\nIMPORTANT: Always give short and clear responses. Avoid lengthy explanations unless specifically asked. Be concise and to the point. Use bullet points when listing multiple items. Keep explanations brief (1-2 sentences maximum unless user asks for details).\n\nPlease provide a helpful response based on the product data above. Format your response clearly with proper markdown formatting. Include specific product details and prices when relevant."

\* classifyIntent(message); the patterns keep no position between calls
classifyIntent(message) == Get(Outcome(Some(message)))

\* the k-th product, price and review of the collection the service reads;
\* discounted_price is a string in one document and a number in the next
Product(k) ==
  [product_name |-> "Product " \o IntToString(k),
   discounted_price |-> IF k % 2 = 1 THEN Some("₹" \o IntToString(k) \o "99")
                        ELSE None,
   discounted_number |-> Num(100 * k),
   actual_price |-> "₹" \o IntToString(k) \o "999",
   savings |-> "₹900",
   rating |-> "4." \o IntToString(k % 10),
   rating_count |-> IntToString(10 * k),
   category |-> "Electronics"]

\* the length review_content is cut to in the reviews block
ReviewCut == 200

RECURSIVE Filler(_)
\* a text of n characters
Filler(n) ==
  IF n = 0 THEN ""
  ELSE IF n % 2 = 1 THEN "x" \o Filler(n - 1)
  ELSE Filler(n \div 2) \o Filler(n \div 2)

Review(k) ==
  [review_title |-> "Review " \o IntToString(k),
   review_content |-> IF k % 2 = 1 THEN "great value " \o IntToString(k)
                      ELSE Filler(ReviewCut + k),
   user_name |-> "User " \o IntToString(k)]

Products(n) == [k \in 1..n |-> Product(k)]
Reviews(n) == [k \in 1..n |-> Review(k)]

\* what a call can come to: it throws, it finds nothing (an empty list or
\* null), or it finds items
Thrown == [threw |-> TRUE, items |-> 0]
Found(n) == [threw |-> FALSE, items |-> n]
ServiceOutcomes == {Thrown} \cup { Found(n) : n \in 0..MaxItems }

\* the labels analyzeBatchSentiments gives n texts, one per text
SentimentLabels == <<"positive", "negative", "neutral">>
Sentiments(n, shift) == [k \in 1..n |-> SentimentLabels[((k + shift) % 3) + 1]]

\* the stand-ins for the three emoji of the reviews block, each a surrogate
\* pair (two code units) in the source
Emoji(label) ==
  IF label = "positive" THEN ":)" ELSE IF label = "negative" THEN ":(" ELSE ":|"

\* parseFloat(((count / total) * 100).toFixed(1))
Percent(count, total) ==
  Frac((2 * count * 1000 + total) \div (2 * total), 10)

Count(labels, label) == Cardinality({ k \in DOMAIN labels : labels[k] = label })

\* the price of a product as the blocks write it
PriceText(p) ==
  IF IsSome(p.discounted_price) THEN Get(p.discounted_price)
  ELSE "₹" \o NumberToString(p.discounted_number)

RECURSIVE PriceLines(_, _, _)
\* priceInfoList.slice(0, 3).forEach(...)
PriceLines(list, k, last) ==
  IF k > last THEN ""
  ELSE "- " \o list[k].product_name \o ": " \o PriceText(list[k])
       \o " (was " \o list[k].actual_price \o ", save " \o list[k].savings
       \o ")\n" \o PriceLines(list, k + 1, last)

RECURSIVE ReviewLines(_, _, _, _)
\* reviews.slice(0, limit).forEach(...)
ReviewLines(reviews, sentiments, k, last) ==
  IF k > last THEN ""
  ELSE IntToString(k) \o ". " \o Emoji(sentiments[k]) \o " \""
       \o reviews[k].review_title \o "\"\n   "
       \o Slice(reviews[k].review_content, 0, ReviewCut)
       \o (IF Len(reviews[k].review_content) > ReviewCut THEN "..." ELSE "")
       \o "\n   - " \o reviews[k].user_name \o "\n\n"
       \o ReviewLines(reviews, sentiments, k + 1, last)

RECURSIVE SearchLines(_, _)
\* products.forEach(...)
SearchLines(products, k) ==
  IF k > Len(products) THEN ""
  ELSE IntToString(k) \o ". " \o products[k].product_name \o "\n   Price: "
       \o PriceText(products[k]) \o " | Rating: " \o products[k].rating
       \o "/5 (" \o products[k].rating_count \o " reviews)\n"
       \o SearchLines(products, k + 1)

RECURSIVE TopReviewLines(_, _)
\* reviewResult.reviews.forEach(...)
TopReviewLines(reviews, k) ==
  IF k > Len(reviews) THEN ""
  ELSE IntToString(k) \o ". " \o reviews[k].review_title \o ": \""
       \o Slice(reviews[k].review_content, 0, 100) \o "...\"\n"
       \o TopReviewLines(reviews, k + 1)

PriceBlock(n) ==
  IF n = 0 THEN ""
  ELSE "\n\n[PRODUCT DATA]\n" \o PriceLines(Products(n), 1, Min(n, 3))

ReviewsBlock(n, limit, sentiments) ==
  "\n\n[PRODUCT REVIEWS]\nSentiment Analysis: "
  \o NumberToString(Percent(Count(sentiments, "positive"), n))
  \o "% positive, "
  \o NumberToString(Percent(Count(sentiments, "negative"), n))
  \o "% negative, "
  \o NumberToString(Percent(Count(sentiments, "neutral"), n))
  \o "% neutral\n\n"
  \o ReviewLines(Reviews(n), sentiments, 1, Min(n, limit))

SearchBlock(n) ==
  IF n = 0 THEN ""
  ELSE "\n\n[PRODUCT SEARCH RESULTS]\n" \o SearchLines(Products(n), 1)

InfoBlock(n) ==
  "\n\n[PRODUCT INFORMATION]\nProduct: " \o Product(1).product_name
  \o "\nPrice: " \o PriceText(Product(1)) \o "\nRating: " \o Product(1).rating
  \o "/5 (" \o Product(1).rating_count \o " reviews)\nCategory: "
  \o Product(1).category \o "\n"

TopReviewsBlock(n) ==
  IF n = 0 THEN "" ELSE "\nTop Reviews:\n" \o TopReviewLines(Reviews(n), 1)

StatsBlock(n) ==
  IF n = 0 THEN ""
  ELSE "\n\n[PRODUCT STATISTICS]\nTotal Products: " \o IntToString(n)
       \o "\nAverage Price: ₹100\nPrice Range: ₹50 - ₹150"
       \o "\nAverage Rating: 4.2/5\nTotal Reviews: 1,234\n"

\* extractedEntities.productName || message
NameOrMessage(entities, message) ==
  IF Truthy(entities.productName) THEN Get(entities.productName) ELSE message

\* extractedEntities.limit || fallback; a limit is a whole number from 1 on
LimitOr(entities, fallback) ==
  IF IsSome(entities.limit) THEN Get(entities.limit).n ELSE fallback

Call(method, arguments) == [method |-> method, arguments |-> arguments]

\* the first call of the service for a classification that requires data
\* and is no email request
FirstCall(c, message) ==
  IF c.intent = "product_price"
    THEN Call("getProductPrice", NameOrMessage(c.extractedEntities, message))
  ELSE IF c.intent = "product_reviews"
    THEN Call("getTopReviews",
              NameOrMessage(c.extractedEntities, message) \o ", "
              \o IntToString(LimitOr(c.extractedEntities, 5)))
  ELSE IF c.intent = "product_search"
    THEN IF IsSome(c.extractedEntities.priceRange)
           THEN Call("getProductsByPriceRange",
                     NumberToString(Get(c.extractedEntities.priceRange).min)
                     \o ", "
                     \o NumberToString(Get(c.extractedEntities.priceRange).max)
                     \o ", " \o IntToString(LimitOr(c.extractedEntities, 10)))
           ELSE Call("getTopRatedProducts",
                     NameOrMessage(c.extractedEntities, message) \o ", "
                     \o IntToString(LimitOr(c.extractedEntities, 10)))
  ELSE IF c.intent = "product_info"
    THEN Call("searchProducts",
              NameOrMessage(c.extractedEntities, message) \o ", 3")
  ELSE Call("getProductStats", NameOrMessage(c.extractedEntities, message))

\* the second call, made when the first found something
SecondCall(c, message) ==
  IF c.intent = "product_reviews"
    THEN Call("analyzeBatchSentiments", "reviewTexts")
    ELSE Call("getProductReviews",
              NameOrMessage(c.extractedEntities, message) \o ", 3")

\* the intents whose branch awaits a second call
TwoCallIntents == {"product_reviews", "product_info"}

\* productData after the first call found n items, for the intents with
\* one call
BlockOf(intent, n) ==
  IF intent = "product_price" THEN PriceBlock(n)
  ELSE IF intent = "product_search" THEN SearchBlock(n)
  ELSE IF intent = "product_info" THEN InfoBlock(n)
  ELSE StatsBlock(n)

\* /^(this|that|it|the product)$/i
NoProduct ==
  RegExp(Cat(<<Bol, AnyOf(<<"this", "that", "it", "the product">>), Eol>>),
         TRUE)

\* the productName of the email branch, None for undefined
EmailProductName(entities) ==
  IF ~Truthy(entities.productName) THEN None
  ELSE IF Test(NoProduct, Get(entities.productName)) THEN None
  ELSE entities.productName

\* the text the email branch returns
EmailRequest(productName) ==
  JSONStringify(<<
    <<"type", JSONString("email_request")>>,
    <<"productName",
      JSONString(IF Truthy(productName) THEN Get(productName)
                 ELSE "the product we discussed")>>,
    <<"needsContext", JSONBoolean(~Truthy(productName))>>,
    <<"message",
      JSONString("I'll help you generate an email with product details. Let me fetch the information first.")>> >>)

\* the prompt at the end of enhanceMessageWithProductData
EnhancedPrompt(message, data) ==
  IF data = "" THEN message ELSE message \o data \o DataInstruction

\* what POST takes for the text of the email branch
EmailPrefix == "{\"type\":\"email_request\""


(***************************************************************************)
(* The chat endpoint: the requests, the LLM streams and the steps of POST. *)
(***************************************************************************)
\* the messages of the requests
ChatMessages ==
  {"hello", "   ", "asdf qwer",
   "price of iphone", "price of  ",
   "reviews of boat headphones", "show top 2 reviews of iphone",
   "best laptops under 50000", "best samsung phones",
   "tell me about the iphone", "compare iphone and samsung",
   "email me the details of iphone 15", "email me this",
   "send it", "mail me  ", "email me The Product",
   "share sony headphones via email", "please forward to my mail",
   "{\"type\":\"email_request\"}", "{\"type\":\"email_request\"} hello",
   "{\"type\":\"email_request\",\"price\":null, \"iphone\":true }",
   "{\"type\":\"email_request\"} price of iphone",
   "{\"type\":\"email_request\",\"q\":\"price of iphone\"}"}

\* a request whose body is not JSON, or a body with or without a message,
\* served with or without GEMINI_API_TOKEN in the environment
Requests ==
  {None}
  \cup { Some([message |-> m, token |-> t]) :
           m \in {None, Some("")} \cup { Some(x) : x \in ChatMessages },
           t \in BOOLEAN }

\* the texts of the chunks of the LLM streams
StreamTexts ==
  {<<>>, <<"">>, <<"Hi">>, <<"Sure", "!!">>,
   <<"**Top** picks:\n", "* One\n* Two*">>,
   <<"a*", "* b***c", "\n* ", "*"  >>}

\* generateStreamingResponse throws, or gives a stream whose read ends or
\* throws after the chunks
Stream(chunks, throws) == [chunks |-> chunks, throws |-> throws, read |-> 0]

\* the stream after one more chunk was read
Advanced(stream) == [stream EXCEPT !.read = @ + 1]

\* every chunk of the stream was read
Exhausted(stream) == stream.read = Len(stream.chunks)
GenerateOutcomes ==
  {None} \cup { Some(Stream(t, b)) : t \in StreamTexts, b \in BOOLEAN }

\* the messages of the errors thrown
GenerateError == "Failed to generate streaming response: quota exceeded"
ReadError == "stream interrupted"
ServiceError == "MongoServerSelectionError: connection timed out"
BodyError == "Unexpected end of JSON input"
ParseError == "Unexpected non-whitespace character after JSON"

JsonResponse(status, members) ==
  Some([status |-> status,
        contentType |-> "application/json",
        body |-> JSONStringify(members)])

StreamResponse ==
  Some([status |-> 200,
        contentType |-> "text/plain; charset=utf-8",
        body |-> ""])

\* the response of the catch block of POST
Failed(details) ==
  JsonResponse(500, << <<"error", JSONString("Failed to process chat message")>>,
                       <<"details", JSONString(details)>> >>)

Message == Get(Get(request).message)

ChatInit ==
  /\ ClassifierIdle
  /\ BatchIdle
  /\ MongoIdle
  /\ UiIdle
  /\ chatPc = "request"
  /\ request \in Requests
  /\ classification = None
  /\ serviceCalls = <<>>
  /\ found = 0
  /\ productData = ""
  /\ dataErrors = <<>>
  /\ enhancedMessage = None
  /\ llmPrompts = <<>>
  /\ response = None
  /\ upstream = None
  /\ upstreamEnded = FALSE
  /\ fullResponse = ""
  /\ cursor = 0
  /\ enqueued = <<>>
  /\ closed = 0

\* request.json() and the two checks before the work
Receive ==
  /\ chatPc = "request"
  /\ IF request = None
       THEN /\ response' = Failed(BodyError)
            /\ chatPc' = "responded"
       ELSE IF ~Truthy(Get(request).message)
         THEN /\ response' =
                   JsonResponse(400, << <<"error",
                                          JSONString("Message is required")>> >>)
              /\ chatPc' = "responded"
       ELSE IF ~Get(request).token
         THEN /\ response' =
                   JsonResponse(500,
                     << <<"error", JSONString("AI service not configured")>>,
                        <<"details",
                          JSONString("GEMINI_API_TOKEN environment variable is missing")>> >>)
              /\ chatPc' = "responded"
       ELSE /\ response' = None
            /\ chatPc' = "enhance"
  /\ UNCHANGED <<request, classification, serviceCalls, found, productData,
                 enhancedMessage, llmPrompts, upstream, upstreamEnded,
                 fullResponse, cursor, enqueued, closed>>
  /\ UNCHANGED <<dataErrors, besidesChat>>

\* enhanceMessageWithProductData up to its first await: the classification,
\* the return for a message that needs no data, and the email branch
Enhance ==
  /\ chatPc = "enhance"
  /\ classification' = Some(classifyIntent(Message))
  /\ IF ~Get(classification').requiresData
       THEN /\ enhancedMessage' = Some(Message \o ConciseInstruction)
            /\ chatPc' = "respond"
       ELSE IF Get(classification').intent = "email_request"
         THEN /\ enhancedMessage' =
                   Some(EmailRequest(EmailProductName(
                          Get(classification').extractedEntities)))
              /\ chatPc' = "respond"
       ELSE /\ enhancedMessage' = None
            /\ chatPc' = "lookup"
  /\ UNCHANGED <<request, serviceCalls, found, productData, llmPrompts,
                 response, upstream, upstreamEnded, fullResponse, cursor,
                 enqueued, closed>>
  /\ UNCHANGED <<dataErrors, besidesChat>>

\* the first call of the product service and what follows it up to the
\* next await or the return
Lookup ==
  /\ chatPc = "lookup"
  /\ serviceCalls' = Append(serviceCalls, FirstCall(Get(classification), Message))
  /\ \E outcome \in ServiceOutcomes :
       IF outcome.threw
         THEN /\ found' = 0
              /\ productData' = ""
              /\ dataErrors' = Append(dataErrors, ServiceError)
              /\ enhancedMessage' = Some(Message)
              /\ chatPc' = "respond"
       ELSE IF outcome.items = 0
         THEN /\ found' = 0
              /\ productData' = ""
              /\ dataErrors' = dataErrors
              /\ enhancedMessage' = Some(EnhancedPrompt(Message, ""))
              /\ chatPc' = "respond"
       ELSE IF Get(classification).intent \in TwoCallIntents
         THEN /\ found' = outcome.items
              /\ productData' =
                   (IF Get(classification).intent = "product_info"
                      THEN InfoBlock(outcome.items) ELSE "")
              /\ dataErrors' = dataErrors
              /\ enhancedMessage' = None
              /\ chatPc' = "lookup2"
       ELSE /\ found' = outcome.items
            /\ productData' = BlockOf(Get(classification).intent, outcome.items)
            /\ dataErrors' = dataErrors
            /\ enhancedMessage' = Some(EnhancedPrompt(Message, productData'))
            /\ chatPc' = "respond"
  /\ UNCHANGED <<request, classification, llmPrompts, response, upstream,
                 upstreamEnded, fullResponse, cursor, enqueued, closed>>
  /\ UNCHANGED besidesChat

\* the second call: analyzeBatchSentiments for the reviews that were found,
\* getProductReviews for the product that was found
Lookup2 ==
  /\ chatPc = "lookup2"
  /\ serviceCalls' = Append(serviceCalls, SecondCall(Get(classification), Message))
  /\ \E outcome \in ServiceOutcomes, shift \in 0..2 :
       IF outcome.threw
         THEN /\ productData' = productData
              /\ dataErrors' = Append(dataErrors, ServiceError)
              /\ enhancedMessage' = Some(Message)
       ELSE IF Get(classification).intent = "product_reviews"
         THEN /\ productData' =
                   ReviewsBlock(found,
                                LimitOr(Get(classification).extractedEntities, 5),
                                Sentiments(found, shift))
              /\ dataErrors' = dataErrors
              /\ enhancedMessage' = Some(EnhancedPrompt(Message, productData'))
       ELSE /\ productData' = productData \o TopReviewsBlock(outcome.items)
            /\ dataErrors' = dataErrors
            /\ enhancedMessage' = Some(EnhancedPrompt(Message, productData'))
  /\ chatPc' = "respond"
  /\ UNCHANGED <<request, classification, found, llmPrompts, response,
                 upstream, upstreamEnded, fullResponse, cursor, enqueued,
                 closed>>
  /\ UNCHANGED besidesChat

\* the response for the text of the email branch
EmailResponse(parsed) ==
  IF parsed = None THEN Failed(ParseError)
  ELSE Some([status |-> 200,
             contentType |-> "application/json",
             body |-> JSONStringify(Get(parsed))])

\* POST after enhanceMessageWithProductData: the email response, or the
\* call of generateStreamingResponse and the stream that is returned
Respond ==
  /\ chatPc = "respond"
  /\ IF StartsWith(Get(enhancedMessage), EmailPrefix)
       THEN /\ response' = EmailResponse(JSONParse(Get(enhancedMessage)))
            /\ llmPrompts' = llmPrompts
            /\ upstream' = None
            /\ chatPc' = "responded"
       ELSE /\ llmPrompts' = Append(llmPrompts, Get(enhancedMessage))
            /\ \E generated \in GenerateOutcomes :
                 IF generated = None
                   THEN /\ response' = Failed(GenerateError)
                        /\ upstream' = None
                        /\ chatPc' = "responded"
                   ELSE /\ response' = StreamResponse
                        /\ upstream' = generated
                        /\ chatPc' = "reading"
  /\ UNCHANGED <<request, classification, serviceCalls, found, productData,
                 enhancedMessage, upstreamEnded, fullResponse, cursor,
                 enqueued, closed>>
  /\ UNCHANGED <<dataErrors, besidesChat>>

\* one turn of the for-await loop: the next chunk of the LLM stream
ReadChunk ==
  /\ chatPc = "reading"
  /\ ~Exhausted(Get(upstream))
  /\ fullResponse' =
       fullResponse \o Get(upstream).chunks[Get(upstream).read + 1]
  /\ upstream' = Some(Advanced(Get(upstream)))
  /\ UNCHANGED <<chatPc, request, classification, serviceCalls, found,
                 productData, enhancedMessage, llmPrompts, response,
                 upstreamEnded, cursor, enqueued, closed>>
  /\ UNCHANGED <<dataErrors, besidesChat>>

\* the catch block of start without its controller.close()
ReadThrowsWithoutClose ==
  /\ chatPc = "reading"
  /\ Exhausted(Get(upstream))
  /\ Get(upstream).throws
  /\ enqueued' = Append(enqueued, "\n\n[Error: " \o ReadError \o "]")
  /\ chatPc' = "closed"
  /\ UNCHANGED <<request, classification, serviceCalls, found, productData,
                 enhancedMessage, llmPrompts, response, upstream,
                 upstreamEnded, fullResponse, cursor, closed>>
  /\ UNCHANGED <<dataErrors, besidesChat>>

\* the read of the LLM stream throws: the catch block of start
ReadThrows ==
  /\ chatPc = "reading"
  /\ Exhausted(Get(upstream))
  /\ Get(upstream).throws
  /\ enqueued' = Append(enqueued, "\n\n[Error: " \o ReadError \o "]")
  /\ closed' = closed + 1
  /\ chatPc' = "closed"
  /\ UNCHANGED <<request, classification, serviceCalls, found, productData,
                 enhancedMessage, llmPrompts, response, upstream,
                 upstreamEnded, fullResponse, cursor>>
  /\ UNCHANGED <<dataErrors, besidesChat>>

\* the LLM stream ends: the response is cleaned and the slicing loop starts
ReadEnd ==
  /\ chatPc = "reading"
  /\ Exhausted(Get(upstream))
  /\ ~Get(upstream).throws
  /\ upstreamEnded' = TRUE
  /\ fullResponse' = cleanMarkdownFormatting(fullResponse)
  /\ cursor' = 0
  /\ chatPc' = "slicing"
  /\ UNCHANGED <<request, classification, serviceCalls, found, productData,
                 enhancedMessage, llmPrompts, response, upstream, enqueued,
                 closed>>
  /\ UNCHANGED <<dataErrors, besidesChat>>

\* one turn of the slicing loop
Enqueue ==
  /\ chatPc = "slicing"
  /\ cursor < Len(fullResponse)
  /\ enqueued' =
       Append(enqueued, Slice(fullResponse, cursor, cursor + CHARS_PER_CHUNK))
  /\ cursor' = cursor + CHARS_PER_CHUNK
  /\ UNCHANGED <<chatPc, request, classification, serviceCalls, found,
                 productData, enhancedMessage, llmPrompts, response, upstream,
                 upstreamEnded, fullResponse, closed>>
  /\ UNCHANGED <<dataErrors, besidesChat>>

\* the slicing loop is over: controller.close()
Close ==
  /\ chatPc = "slicing"
  /\ cursor >= Len(fullResponse)
  /\ closed' = closed + 1
  /\ chatPc' = "closed"
  /\ UNCHANGED <<request, classification, serviceCalls, found, productData,
                 enhancedMessage, llmPrompts, response, upstream,
                 upstreamEnded, fullResponse, cursor, enqueued>>
  /\ UNCHANGED <<dataErrors, besidesChat>>

ChatNext ==
  \/ Receive
  \/ Enhance
  \/ Lookup
  \/ Lookup2
  \/ Respond
  \/ ReadChunk
  \/ ReadThrows
  \/ ReadEnd
  \/ Enqueue
  \/ Close

ChatSpec == ChatInit /\ [][ChatNext]_vars

\* the steps of start(controller), which the event loop runs to the end
StreamStep == ReadChunk \/ ReadThrows \/ ReadEnd \/ Enqueue \/ Close

\* weak fairness of StreamStep, with ENABLED <<StreamStep>>_vars written
\* out: a step of start is possible exactly while it reads or slices
FairChatSpec ==
  ChatSpec
  /\ ([]<>(chatPc \notin {"reading", "slicing"}) \/ []<><<StreamStep>>_vars)


(***************************************************************************)
(* The chat endpoint: its properties.                                      *)
(***************************************************************************)
\* the value of member key of a parsed object, null when it has none
MemberOf(members, key) ==
  IF \E k \in DOMAIN members : members[k][1] = key
    THEN members[CHOOSE k \in DOMAIN members : members[k][1] = key][2]
    ELSE JSONNull

\* the request was answered, with a body that is JSON
Answered == chatPc = "responded" /\ IsSome(response)
Body == Get(JSONParse(Get(response).body))

\* the message of the request was classified as an email request
EmailClassified ==
  IsSome(classification) /\ Get(classification).intent = "email_request"

\* the product name the classifier extracted from the message, if any
Extracted == Get(classification).extractedEntities.productName

\* one of this, that, it, the product, in any case
Pronoun(name) ==
  ToLowerCase(name) \in {"this", "that", "it", "the product"}

\* C25: for a message classified as email_request the endpoint answers
\* with a JSON body of type email_request and calls neither the product
\* service nor the LLM; needsContext is true exactly when no product name
\* was extracted or the name is this, that, it or the product, and the
\* name reported is then 'the product we discussed'.
C25_EmailRequestAnswer ==
  EmailClassified =>
    /\ serviceCalls = <<>>
    /\ llmPrompts = <<>>
    /\ Answered =>
         /\ Get(response).status = 200
         /\ Get(response).contentType = "application/json"
         /\ MemberOf(Body, "type") = JSONString("email_request")
         /\ MemberOf(Body, "needsContext") \in
              {JSONBoolean(TRUE), JSONBoolean(FALSE)}
         /\ MemberOf(Body, "needsContext") = JSONBoolean(TRUE)
              <=> (IF Extracted = None THEN TRUE ELSE Pronoun(Get(Extracted)))
         /\ MemberOf(Body, "needsContext") = JSONBoolean(TRUE)
              => MemberOf(Body, "productName")
                   = JSONString("the product we discussed")


\* enhanceMessageWithProductData has returned and POST has acted on it
Forwarded == chatPc \in {"responded", "reading", "slicing", "closed"}

\* the response is no error response: a stream, or the error that
\* generateStreamingResponse itself threw
NoLookupError ==
  IF Get(response).status = 200 THEN TRUE
  ELSE response = Failed(GenerateError)

\* C26: when a product-service or sentiment call throws while a message
\* that requires data is enriched, the error is swallowed and the original
\* message, with no product-data block, is what the LLM is called with; the
\* failure alone gives no error response; and a message that requires no
\* data triggers no product-service call.
C26_LookupFailureIsSwallowed ==
  /\ (IsSome(classification) /\ ~Get(classification).requiresData)
       => serviceCalls = <<>>
  /\ (dataErrors # <<>> /\ Forwarded)
       => /\ enhancedMessage = Some(Message)
          /\ llmPrompts = <<Message>>
          /\ NoLookupError


RECURSIVE ConcatFrom(_, _)
ConcatFrom(strings, k) ==
  IF k > Len(strings) THEN "" ELSE strings[k] \o ConcatFrom(strings, k + 1)

\* the strings of a sequence, one after the other
Concat(strings) == ConcatFrom(strings, 1)

\* the text of the chunks the LLM stream holds
UpstreamText == Concat(Get(upstream).chunks)

\* the chunk the catch block of start enqueues
ErrorChunk == "\n\n[Error: " \o ReadError \o "]"

\* a response stream was returned
Streaming == chatPc \in {"reading", "slicing", "closed"}

\* what holds of the response stream at every moment
StreamInvariant ==
  /\ closed <= 1
  /\ closed = 1 <=> chatPc = "closed"
  /\ Streaming =>
       /\ enqueued # <<>> => Exhausted(Get(upstream))
       /\ ~Get(upstream).throws =>
            /\ \A k \in DOMAIN enqueued :
                 Len(enqueued[k]) >= 1 /\ Len(enqueued[k]) <= 3
            /\ Concat(enqueued)
                 = Slice(cleanMarkdownFormatting(UpstreamText), 0,
                         3 * Len(enqueued))
            /\ closed = 1 =>
                 Concat(enqueued) = cleanMarkdownFormatting(UpstreamText)
       /\ (Get(upstream).throws /\ closed = 1) => enqueued = <<ErrorChunk>>
       /\ (Get(upstream).throws /\ closed = 0) => enqueued = <<>>

batchSize == 5

\* the longest argument has MaxTexts texts
MaxTexts == 6

positiveWords ==
  <<"good", "great", "excellent", "amazing", "love", "perfect", "best",
    "awesome">>

negativeWords ==
  <<"bad", "poor", "terrible", "awful", "hate", "worst", "disappointed",
    "useless">>

\* the number of words of a list that a text includes
WordCount(words, lowerText) ==
  Cardinality({ k \in DOMAIN words : Includes(lowerText, words[k]) })

\* Math.max(-1, Math.min(1, score)) for score = three tenths of balance
Clamped(balance) ==
  IF 3 * balance > 10 THEN Num(1)
  ELSE IF 3 * balance < -10 THEN Num(-1)
  ELSE Frac(3 * balance, 10)

\* the label of a score that is balance times 0.3: above 0.2, below -0.2
LabelOf(balance) ==
  IF 3 * balance > 2 THEN "positive"
  ELSE IF 3 * balance < -2 THEN "negative"
  ELSE "neutral"

\* a SentimentResult; text is the argument of the analysis that made it,
\* which the object of the source does not hold
SentimentResult(score, label, certainty, reasoning, review) ==
  [score |-> score, label |-> label, confidence |-> certainty,
   reasoning |-> reasoning, text |-> review]

FallbackOf(positiveCount, negativeCount, review) ==
  SentimentResult(Clamped(positiveCount - negativeCount),
                  LabelOf(positiveCount - negativeCount),
                  MathMin(Frac(7, 10), Frac(2 * (positiveCount + negativeCount), 10)),
                  "Fallback lexicon-based analysis", review)

fallbackSentimentAnalysis(review) ==
  FallbackOf(WordCount(positiveWords, ToLowerCase(review)),
             WordCount(negativeWords, ToLowerCase(review)), review)

\* what model.generateContent comes to: it rejects, or it answers with a
\* text that is no JSON, that is the JSON null, an empty object, or the
\* object that was asked for
LlmOutcomes == {"rejected", "not JSON", "null", "empty object", "object"}

\* the outcomes that throw inside the try block of analyzeSentiment
Throwing == {"rejected", "not JSON", "null"}

\* the object analyzeSentiment makes of what JSON.parse returned
FromParsed(outcome, review) ==
  IF outcome = "empty object"
    THEN SentimentResult(Num(0), "neutral", Frac(5, 10),
                         "No reasoning provided", review)
    ELSE SentimentResult(Frac(8, 10), "positive", Frac(9, 10),
                         "The customer is pleased", review)

Fulfilled(value) == [status |-> "fulfilled", value |-> value]
Rejected_(reason) == [status |-> "rejected", value |-> reason]

\* analyzeSentiment without its catch block
analyzeSentimentWithoutCatch(review, outcome) ==
  IF outcome \in Throwing THEN Rejected_(outcome)
  ELSE Fulfilled(FromParsed(outcome, review))

\* what the promise of analyzeSentiment(review) settles with when the model
\* comes to outcome
analyzeSentiment(review, outcome) ==
  IF outcome \in Throwing THEN Fulfilled(fallbackSentimentAnalysis(review))
  ELSE Fulfilled(FromParsed(outcome, review))

\* the reviews of testSentimentAnalyzer, taken round and round
testReviews ==
  <<"This product is absolutely amazing! Best purchase I've made in years. Highly recommend!",
    "Terrible quality. Broke after just one week. Complete waste of money.",
    "It's okay, nothing special. Does the job but not impressive.",
    "Love it! Works perfectly and arrived fast. Great value for money!",
    "Very disappointed. Not as described and poor customer service.",
    "Decent product for the price. Some minor issues but overall satisfied.">>

ReviewText(k) == testReviews[((k - 1) % Len(testReviews)) + 1]

\* the arguments: the first n reviews
TextLists == { [k \in 1..n |-> ReviewText(k)] : n \in 0..MaxTexts }

\* texts.slice(i, i + batchSize)
Batch == SubSeq(texts, batchIndex + 1, Min(batchIndex + batchSize, Len(texts)))

\* the analyses of the batch that have not settled
InFlight == { k \in DOMAIN analyses : analyses[k] = None }

\* the analyses of the batch that were rejected
RejectedAnalyses ==
  { k \in DOMAIN analyses \ InFlight : Get(analyses[k]).status = "rejected" }

BatchInit ==
  /\ ClassifierIdle
  /\ ChatIdle
  /\ MongoIdle
  /\ UiIdle
  /\ batchPc = "loop"
  /\ texts \in TextLists
  /\ geminiReady \in BOOLEAN
  /\ batchIndex = 0
  /\ analyses = <<>>
  /\ results = <<>>

\* batch.map((text) => analyzeSentiment(text)): every analysis of the batch
\* runs to its await of generateContent, or, when getGeminiModel throws, to
\* its end
StartBatch ==
  /\ batchPc = "loop"
  /\ batchIndex < Len(texts)
  /\ analyses' =
       [k \in 1..Len(Batch) |->
          IF geminiReady THEN None
          ELSE Some(analyzeSentiment(Batch[k], "rejected"))]
  /\ batchPc' = "awaiting"
  /\ UNCHANGED <<texts, geminiReady, batchIndex, results>>
  /\ UNCHANGED besidesBatch

\* generateContent settles for one analysis, which runs to its end
Settle ==
  /\ batchPc = "awaiting"
  /\ \E k \in InFlight, outcome \in LlmOutcomes :
       analyses' = [analyses EXCEPT ![k] = Some(analyzeSentiment(Batch[k], outcome))]
  /\ UNCHANGED <<batchPc, texts, geminiReady, batchIndex, results>>
  /\ UNCHANGED besidesBatch

\* Promise.all settles: it rejects as soon as one analysis has rejected and
\* is fulfilled when all are; results.push(...batchResults) and i += batchSize
Resume ==
  /\ batchPc = "awaiting"
  /\ IF RejectedAnalyses # {}
       THEN /\ batchPc' = "rejected"
            /\ UNCHANGED <<results, batchIndex, analyses>>
       ELSE /\ InFlight = {}
            /\ results' = results \o [k \in DOMAIN analyses |-> Get(analyses[k]).value]
            /\ batchIndex' = batchIndex + batchSize
            /\ analyses' = <<>>
            /\ batchPc' = "loop"
  /\ UNCHANGED <<texts, geminiReady>>
  /\ UNCHANGED besidesBatch

\* return results
Return ==
  /\ batchPc = "loop"
  /\ batchIndex >= Len(texts)
  /\ batchPc' = "returned"
  /\ UNCHANGED <<texts, geminiReady, batchIndex, analyses, results>>
  /\ UNCHANGED besidesBatch

BatchNext ==
  \/ StartBatch
  \/ Settle
  \/ Resume
  \/ Return

BatchSpec == BatchInit /\ [][BatchNext]_vars


(***************************************************************************)
(* analyzeBatchSentiments: its properties.                                 *)
(***************************************************************************)
\* the analyses that were started so far
Started == IF batchPc = "awaiting" THEN batchIndex + Len(analyses) ELSE batchIndex

\* result k is the result of an analysis of text k: the fallback result
\* or one made of the model's answer
ResultOfText(k) ==
  /\ results[k].text = texts[k]
  /\ results[k].label \in {"positive", "negative", "neutral"}
  /\ IF results[k].reasoning = "Fallback lexicon-based analysis"
       THEN results[k] = fallbackSentimentAnalysis(texts[k])
       ELSE \E outcome \in LlmOutcomes \ Throwing :
              results[k] = FromParsed(outcome, texts[k])

BatchInvariant ==
  /\ batchPc # "rejected"
  /\ Cardinality(InFlight) <= 5
  /\ Len(results) = Min(batchIndex, Len(texts))
  /\ \A k \in DOMAIN results : ResultOfText(k)
  /\ batchPc = "awaiting" =>
       /\ Len(analyses) = Min(5, Len(texts) - batchIndex)
       /\ \A k \in DOMAIN analyses \ InFlight :
            /\ Get(analyses[k]).status = "fulfilled"
            /\ Get(analyses[k]).value.text = texts[batchIndex + k]
  /\ batchPc = "returned" =>
       /\ Len(results) = Len(texts)
       /\ InFlight = {}

\* C28: analyzeBatchSentiments returns one result per text, in the order of
\* the texts; at most 5 analyses are in flight at any time; a batch is
\* started only when every analysis of the batch before it has settled;
\* and a failing analysis never rejects the batch, it settles with the
\* lexicon-based result.
C28_BatchesOfFive ==
  /\ []BatchInvariant
  /\ [][/\ (batchPc' = "awaiting" /\ batchPc # "awaiting") =>
             /\ InFlight = {}
             /\ analyses = <<>>
             /\ Len(results) = batchIndex
        /\ Len(results') # Len(results) => InFlight = {}]_vars

\* six texts were analysed in two batches with a model that answers; some
\* analyses failed and some did not
C28_Witness ==
  /\ batchPc = "returned"
  /\ geminiReady
  /\ Len(texts) = 6
  /\ Len(results) = 6
  /\ results[2] = fallbackSentimentAnalysis(texts[2])
  /\ results[2].label = "negative"
  /\ results[3] = FromParsed("object", texts[3])
  /\ results[6] = fallbackSentimentAnalysis(texts[6])


(***************************************************************************)
(* lib/mongodb.ts: initializeClient and the three exports.                 *)
(***************************************************************************)
\* the calls made of the exports in one behaviour
MaxMongoCalls == 3

Exports == {"getDatabase", "getClient", "getClientPromise"}

Environments ==
  { [uri |-> u, nodeEnv |-> n] :
      u \in {"missing", "invalid", "valid"},
      n \in {"development", "production"} }

\* the test of a module that caches nothing
NeverCached(promise) == FALSE

\* if (clientPromise)
Cached(promise) == promise # "null"

\* what a call of initializeClient comes to with the module state as it
\* is: the promise it returns or the error it throws, and the module state
\* after it
initializeClient ==
  IF Cached(clientPromise)
    THEN [returns |-> clientPromise, client |-> client,
          clientPromise |-> clientPromise, globalPromise |-> globalPromise,
          made |-> 0, connected |-> 0]
  ELSE IF environment.uri = "missing"
    THEN [returns |-> "throws", client |-> client,
          clientPromise |-> clientPromise, globalPromise |-> globalPromise,
          made |-> 0, connected |-> 0]
  ELSE IF environment.nodeEnv = "development" /\ globalPromise # "undefined"
    THEN [returns |-> globalPromise, client |-> client,
          clientPromise |-> globalPromise, globalPromise |-> globalPromise,
          made |-> 0, connected |-> 0]
  ELSE IF environment.uri = "invalid"
    THEN [returns |-> "throws", client |-> client,
          clientPromise |-> clientPromise, globalPromise |-> globalPromise,
          made |-> 0, connected |-> 0]
  ELSE [returns |-> "own", client |-> "own", clientPromise |-> "own",
        globalPromise |-> IF environment.nodeEnv = "development"
                            THEN "own" ELSE globalPromise,
        made |-> 1, connected |-> 1]

\* a call as it stands after initializeClient returned or threw.  An async
\* export gives its caller a promise in both cases; getClientPromise gives
\* the promise of initializeClient itself or throws.  saw is the state
\* the promise was in when the call was made
Caller(export, returned, saw) ==
  [export |-> export,
   awaits |-> IF returned = "throws" THEN "nothing" ELSE returned,
   saw |-> saw,
   outcome |-> IF returned # "throws" THEN "pending"
               ELSE IF export = "getClientPromise" THEN "threw"
               ELSE "rejected"]

\* the module is loaded, perhaps after an earlier instance of it left its
\* promise in the global object (development only)
MongoInit ==
  /\ ClassifierIdle
  /\ ChatIdle
  /\ BatchIdle
  /\ UiIdle
  /\ mongoPc = "loaded"
  /\ environment \in Environments
  /\ client = "null"
  /\ clientPromise = "null"
  /\ \E earlier \in {"none", "pending", "fulfilled", "rejected"} :
       /\ earlier # "none" => environment.nodeEnv = "development"
       /\ connections = [earlier |-> earlier, own |-> "none"]
       /\ globalPromise = IF earlier = "none" THEN "undefined" ELSE "earlier"
  /\ constructed = 0
  /\ connectCalls = 0
  /\ callers = <<>>

\* one of the exports is called: initializeClient runs to its end
CallExport ==
  /\ mongoPc = "loaded"
  /\ Len(callers) < MaxMongoCalls
  /\ \E export \in Exports :
       callers' =
         Append(callers,
                Caller(export, initializeClient.returns,
                       IF initializeClient.returns \in {"throws", "own"}
                            /\ initializeClient.connected = 1
                         THEN "pending"
                       ELSE IF initializeClient.returns = "throws" THEN "none"
                       ELSE connections[initializeClient.returns]))
  /\ client' = initializeClient.client
  /\ clientPromise' = initializeClient.clientPromise
  /\ globalPromise' = initializeClient.globalPromise
  /\ constructed' = constructed + initializeClient.made
  /\ connectCalls' = connectCalls + initializeClient.connected
  /\ connections' =
       IF initializeClient.connected = 1
         THEN [connections EXCEPT !.own = "pending"]
         ELSE connections
  /\ UNCHANGED <<mongoPc, environment>>
  /\ UNCHANGED besidesMongo

\* a connect() settles
ConnectSettles ==
  /\ mongoPc = "loaded"
  /\ \E promise \in {"earlier", "own"}, how \in {"fulfilled", "rejected"} :
       /\ connections[promise] = "pending"
       /\ connections' = [connections EXCEPT ![promise] = how]
  /\ UNCHANGED <<mongoPc, environment, client, clientPromise, globalPromise,
                 constructed, connectCalls, callers>>
  /\ UNCHANGED besidesMongo

\* a caller that waits for a promise that has settled goes on: it has the
\* client (getDatabase: the Db of it) or the error of connect()
CallerResumes ==
  /\ mongoPc = "loaded"
  /\ \E k \in DOMAIN callers :
       /\ callers[k].outcome = "pending"
       /\ connections[callers[k].awaits] \in {"fulfilled", "rejected"}
       /\ callers' =
            [callers EXCEPT ![k].outcome = connections[callers[k].awaits]]
  /\ UNCHANGED <<mongoPc, environment, client, clientPromise, globalPromise,
                 connections, constructed, connectCalls>>
  /\ UNCHANGED besidesMongo

MongoNext ==
  \/ CallExport
  \/ ConnectSettles
  \/ CallerResumes

MongoSpec == MongoInit /\ [][MongoNext]_vars


(***************************************************************************)
(* lib/mongodb.ts: its properties.                                         *)
(***************************************************************************)
\* the callers that were given a promise
Awaiting == { k \in DOMAIN callers : callers[k].awaits # "nothing" }

MongoInvariant ==
  /\ constructed <= 1
  /\ connectCalls <= 1
  /\ connectCalls = constructed
  /\ \A k \in Awaiting :
       /\ clientPromise # "null"
       /\ callers[k].awaits = clientPromise
       /\ callers[k].outcome \in {"pending", connections[clientPromise]}
       /\ callers[k].saw = "rejected" => callers[k].outcome # "fulfilled"
  /\ \A k \in DOMAIN callers \ Awaiting : clientPromise = "null"

\* C29: whatever calls of getDatabase, getClient and getClientPromise are
\* made of one module instance, it makes at most one MongoClient and calls
\* connect() at most once; every caller waits for the one cached promise;
\* once that promise is rejected, every later call is given the rejected
\* promise and nothing connects again.
C29_OneClientOnePromise ==
  /\ []MongoInvariant
  /\ [][(Len(callers') > Len(callers) /\ Cached(clientPromise)) =>
          /\ constructed' = constructed
          /\ connectCalls' = connectCalls
          /\ clientPromise' = clientPromise
          /\ callers'[Len(callers')].awaits = clientPromise
          /\ callers'[Len(callers')].saw = connections[clientPromise]]_vars

\* three calls of three exports in production; connect() was called once
\* and rejected, the third call came after that and was rejected too
C29_Witness ==
  /\ environment = [uri |-> "valid", nodeEnv |-> "production"]
  /\ Len(callers) = 3
  /\ { callers[k].export : k \in DOMAIN callers } = Exports
  /\ callers[1].saw = "pending"
  /\ callers[3].saw = "rejected"
  /\ \A k \in DOMAIN callers : callers[k].outcome = "rejected"
  /\ connections.own = "rejected"
  /\ connectCalls = 1
  /\ constructed = 1


(***************************************************************************)
(* The chat interface: handleSendMessage and handleStopGeneration          *)
(* (src/components/ChatInterface.tsx).  JavaScript runs one handler at a   *)
(* time, and an async function gives the thread up at each await: an       *)
(* action is what runs from one await to the next.  What the awaited       *)
(* calls answer (Appwrite, the network) is the environment's choice.       *)
(***************************************************************************)
\* the most messages sent in one run
MaxSends == 3

\* an invocation of handleSendMessage: the await it is suspended at ("done"
\* once it returned), its local chatId (whether it has one), the
\* AbortController it created, and the controller whose signal its fetch
\* was given (0 while it has not called fetch)
Invocation(at, chatId, controller, signal) ==
  [at |-> at, chatId |-> chatId, controller |-> controller, signal |-> signal]

\* the invocations that have not returned yet
Running == { i \in DOMAIN invocations : invocations[i].at # "done" }

\* fetch("/api/chat", {..., signal: abortControllerRef.current?.signal}): the
\* signal is the one of the controller the shared ref holds when fetch is
\* called
FetchWith(invocation, ref) ==
  [invocation EXCEPT !.at = "fetch", !.signal = ref]

\* the user message: made locally for a guest or without a chat, saved with
\* appwrite.createMessage otherwise; then the request is sent
AfterChatId(invocation, ref) ==
  IF isGuest \/ ~invocation.chatId
    THEN FetchWith(invocation, ref)
    ELSE [invocation EXCEPT !.at = "createMessage"]

\* the answer is complete: a guest's goes to localStorage, a user's is saved
\* with appwrite.createMessage before the flags are cleared
NeedsSaving(invocation) == ~isGuest /\ invocation.chatId

\* setIsLoading(false); setIsGenerating(false) at the end of the try block
\* and of its two early returns
Finish(i) ==
  /\ invocations' = [invocations EXCEPT ![i].at = "done"]
  /\ isLoading' = FALSE
  /\ isGenerating' = FALSE

\* the catch block: a toast, then setIsLoading(false); setIsGenerating(false)
Catch(i) ==
  /\ invocations' = [invocations EXCEPT ![i].at = "done"]
  /\ isLoading' = FALSE
  /\ isGenerating' = FALSE

\* an aborted signal rejects the fetch it was given to, and the reads of
\* that fetch's response body, with an AbortError
Aborted(invocation) == invocation.signal \in abortedControllers

UiInit ==
  /\ ClassifierIdle
  /\ ChatIdle
  /\ BatchIdle
  /\ MongoIdle
  /\ isGuest \in BOOLEAN
  /\ currentChatId \in (IF isGuest THEN {FALSE} ELSE BOOLEAN)
  /\ isLoading = FALSE
  /\ isGenerating = FALSE
  /\ abortControllerRef = 0
  /\ abortedControllers = {}
  /\ invocations = <<>>

\* a message is sent from the input, a suggestion button or Retry, all
\* disabled while isLoading: the flags are set, a new AbortController
\* replaces the one in the ref, and the function runs to its first await
handleSendMessage ==
  /\ ~isLoading
  /\ Len(invocations) < MaxSends
  /\ LET controller == Len(invocations) + 1
         started == Invocation("createChat", currentChatId, controller, 0)
     IN  /\ isLoading' = TRUE
         /\ isGenerating' = TRUE
         /\ abortControllerRef' = controller
         /\ invocations' =
              Append(invocations,
                     IF ~currentChatId /\ ~isGuest
                       THEN started
                       ELSE AfterChatId(started, controller))
  /\ UNCHANGED <<isGuest, currentChatId, abortedControllers>>
  /\ UNCHANGED besidesUi

\* appwrite.createChat settles: the new chat is selected and loadChats is
\* awaited, or the rejection is caught
CreateChatSettles ==
  /\ \E i \in Running, ok \in BOOLEAN :
       /\ invocations[i].at = "createChat"
       /\ IF ok
            THEN /\ invocations' =
                      [invocations EXCEPT ![i].at = "loadChats",
                                          ![i].chatId = TRUE]
                 /\ currentChatId' = TRUE
                 /\ UNCHANGED <<isLoading, isGenerating>>
            ELSE /\ Catch(i)
                 /\ UNCHANGED currentChatId
  /\ UNCHANGED <<isGuest, abortControllerRef, abortedControllers>>
  /\ UNCHANGED besidesUi

\* loadChats returns (it catches its own errors): the user message is saved
LoadChatsSettles ==
  /\ \E i \in Running :
       /\ invocations[i].at = "loadChats"
       /\ invocations' =
            [invocations EXCEPT ![i] = AfterChatId(@, abortControllerRef)]
  /\ UNCHANGED <<isGuest, currentChatId, isLoading, isGenerating,
                 abortControllerRef, abortedControllers>>
  /\ UNCHANGED besidesUi

\* appwrite.createMessage of the user message settles: the request is sent
\* with the signal of the controller the ref holds now, or the rejection is
\* caught
CreateMessageSettles ==
  /\ \E i \in Running, ok \in BOOLEAN :
       /\ invocations[i].at = "createMessage"
       /\ IF ok
            THEN /\ invocations' =
                      [invocations EXCEPT
                         ![i] = FetchWith(@, abortControllerRef)]
                 /\ UNCHANGED <<isLoading, isGenerating>>
            ELSE Catch(i)
  /\ UNCHANGED <<isGuest, currentChatId, abortControllerRef,
                 abortedControllers>>
  /\ UNCHANGED besidesUi

\* what the fetch can settle with
FetchOutcomes == {"stream", "json", "not ok", "rejected"}

\* the fetch settles: a stream to read, a JSON body to parse, or a throw
\* (response not ok, network failure, AbortError)
FetchSettles ==
  /\ \E i \in Running, outcome \in FetchOutcomes :
       /\ invocations[i].at = "fetch"
       /\ Aborted(invocations[i]) => outcome = "rejected"
       /\ IF outcome = "stream"
            THEN /\ invocations' = [invocations EXCEPT ![i].at = "read"]
                 /\ UNCHANGED <<isLoading, isGenerating>>
            ELSE IF outcome = "json"
                   THEN /\ invocations' =
                             [invocations EXCEPT ![i].at = "json"]
                        /\ UNCHANGED <<isLoading, isGenerating>>
                   ELSE Catch(i)
  /\ UNCHANGED <<isGuest, currentChatId, abortControllerRef,
                 abortedControllers>>
  /\ UNCHANGED besidesUi

\* response.json() settles: the email request's answer is shown and, for a
\* user with a chat, saved; a rejection is caught
JsonSettles ==
  /\ \E i \in Running, ok \in BOOLEAN :
       /\ invocations[i].at = "json"
       /\ Aborted(invocations[i]) => ~ok
       /\ IF ~ok
            THEN Catch(i)
            ELSE IF NeedsSaving(invocations[i])
                   THEN /\ invocations' =
                             [invocations EXCEPT ![i].at = "save"]
                        /\ UNCHANGED <<isLoading, isGenerating>>
                   ELSE Finish(i)
  /\ UNCHANGED <<isGuest, currentChatId, abortControllerRef,
                 abortedControllers>>
  /\ UNCHANGED besidesUi

\* what reader.read() can settle with, the chunks that only grow the
\* displayed message left out: the end of the stream (or an email request
\* found in it), or a rejection
ReadOutcomes == {"done", "rejected"}

\* the stream ends: the answer is kept (saved for a user with a chat), or
\* the rejection is caught
ReadSettles ==
  /\ \E i \in Running, outcome \in ReadOutcomes :
       /\ invocations[i].at = "read"
       /\ Aborted(invocations[i]) => outcome = "rejected"
       /\ IF outcome = "rejected"
            THEN Catch(i)
            ELSE IF NeedsSaving(invocations[i])
                   THEN /\ invocations' =
                             [invocations EXCEPT ![i].at = "save"]
                        /\ UNCHANGED <<isLoading, isGenerating>>
                   ELSE Finish(i)
  /\ UNCHANGED <<isGuest, currentChatId, abortControllerRef,
                 abortedControllers>>
  /\ UNCHANGED besidesUi

\* appwrite.createMessage of the answer settles
SaveSettles ==
  /\ \E i \in Running, ok \in BOOLEAN :
       /\ invocations[i].at = "save"
       /\ IF ok THEN Finish(i) ELSE Catch(i)
  /\ UNCHANGED <<isGuest, currentChatId, abortControllerRef,
                 abortedControllers>>
  /\ UNCHANGED besidesUi

\* the Stop button, shown while isGenerating: the controller in the ref is
\* aborted and the flags are cleared at once; the ref keeps the controller
handleStopGeneration ==
  /\ isGenerating
  /\ abortControllerRef # 0
  /\ abortedControllers' = abortedControllers \cup {abortControllerRef}
  /\ isLoading' = FALSE
  /\ isGenerating' = FALSE
  /\ UNCHANGED <<isGuest, currentChatId, abortControllerRef, invocations>>
  /\ UNCHANGED besidesUi

UiNext ==
  \/ handleSendMessage
  \/ CreateChatSettles
  \/ LoadChatsSettles
  \/ CreateMessageSettles
  \/ FetchSettles
  \/ JsonSettles
  \/ ReadSettles
  \/ SaveSettles
  \/ handleStopGeneration

UiSpec == UiInit /\ [][UiNext]_vars

(***************************************************************************)
(* C30                                                                     *)
(***************************************************************************)
\* the request of invocation i went out on a controller another invocation
\* created
OnAnothersController(i) ==
  /\ invocations[i].signal # 0
  /\ invocations[i].signal # invocations[i].controller

\* C30: isLoading is true whenever a handleSendMessage invocation has not
\* returned yet, however sends and Stop interleave, and no invocation sends
\* its request on the AbortController of another one.
C30_BusyWhileInFlight ==
  /\ Running # {} => isLoading
  /\ \A i \in DOMAIN invocations : ~OnAnothersController(i)

=============================================================================
